---- MODULE Spec2Model ----
(***************************************************************************)
(* The cognitive feedback loop of the adaptive audio reading platform:     *)
(* event ingestion, the session store, the cognitive inference engine, the *)
(* adaptation decision engine and the orchestrating event processor.       *)
(*                                                                         *)
(* Units.  Times are milliseconds, as in the code (Date.now()).  Playback  *)
(* speeds and confidences are hundredths (1.0 is 100, 0.75 is 75), so the  *)
(* code's decimal arithmetic is exact integer arithmetic here.  A quotient *)
(* the code computes in floating point (pauseFrequency, avgSpeed) is the   *)
(* pair [num, den] with den > 0 and is compared by cross-multiplication.   *)
(* An object with optional keys (a request body, an event's metadata) is a *)
(* function whose DOMAIN is the set of keys that are present.              *)
(***************************************************************************)
EXTENDS Integers, Sequences, FiniteSets, TLC

VARIABLES
    sessions,      \* models/dataStore.js: const sessions = new Map()
    userProgress,  \* models/dataStore.js: const userProgress = new Map()
    now,           \* the server clock, Date.now()
    nextId,        \* the source of uuidv4() values
    res,           \* the response the last handler wrote
    loopLog,       \* what the last processEvent execution logged
    call,          \* an invocation of the engine's exported inferCognitiveState
    service,       \* the process followed: the in-process server or the data service
    table,         \* the DynamoDB table CognitiveSessions
    calls,         \* the data service's store operations in flight
    client         \* the browser: the AudioPlayer component and the eventEmitter singleton

vars == <<sessions, userProgress, now, nextId, res, loopLog, call, service, table, calls,
          client>>

(***************************************************************************)
(* Program constants                                                       *)
(***************************************************************************)
MAX_EVENTS == 100
MAX_COGNITIVE_STATES == 20
EVENT_WINDOW == 20
ADAPTATION_HISTORY == 10
cooldownPeriod == 5000
RATE_WINDOW == 60000
RATE_CAP == 20
MS_PER_MINUTE == 60000
REPLAY_SECONDS == 30
IDLE_THRESHOLD == 30000

null == "null"
EmptyMap == [k \in {} |-> 0]

(***************************************************************************)
(* JavaScript helpers                                                      *)
(***************************************************************************)
Has(obj, key) == key \in DOMAIN obj

Min(a, b) == IF a < b THEN a ELSE b

Max(a, b) == IF a > b THEN a ELSE b

\* Array.prototype.slice(-n) for n > 0: the last n elements
slice(seq, n) ==
    IF Len(seq) <= n THEN seq ELSE SubSeq(seq, Len(seq) - n + 1, Len(seq))

\* Array.prototype.includes
includes(seq, x) == \E i \in 1..Len(seq) : seq[i] = x

\* [...new Set(seq)]: first occurrences, in order
RECURSIVE unique(_)
unique(seq) ==
    IF seq = <<>> THEN <<>>
    ELSE LET front == unique(SubSeq(seq, 1, Len(seq) - 1))
             last == seq[Len(seq)]
         IN IF includes(front, last) THEN front ELSE Append(front, last)

RECURSIVE SumSeq(_)
SumSeq(seq) ==
    IF seq = <<>> THEN 0 ELSE seq[1] + SumSeq(Tail(seq))

(***************************************************************************)
(* models/dataStore.js, the in-memory store.  Each operator takes the Map  *)
(* and returns the Map the call leaves behind.                             *)
(***************************************************************************)
NewSession(sessionId, userId, t) ==
    [sessionId |-> sessionId, userId |-> userId, startTime |-> t,
     currentSection |-> "intro", currentTime |-> 0, playbackSpeed |-> 100,
     events |-> <<>>, cognitiveStates |-> <<>>, adaptations |-> <<>>]

getSession(S, sessionId, userId, t) ==
    LET S1 == IF sessionId \in DOMAIN S THEN S
              ELSE (sessionId :> NewSession(sessionId, userId, t)) @@ S
    IN IF userId # null /\ S1[sessionId].userId = null
       THEN [S1 EXCEPT ![sessionId].userId = userId]
       ELSE S1

\* addEvent keeping every event: no rolling window
addEvent_unbounded(S, sessionId, event, t) ==
    LET S1 == getSession(S, sessionId,
                         IF Has(event, "userId") THEN event.userId ELSE null, t)
    IN [S1 EXCEPT ![sessionId].events = Append(S1[sessionId].events, event)]

addEvent(S, sessionId, event, t) ==
    LET S1 == getSession(S, sessionId,
                         IF Has(event, "userId") THEN event.userId ELSE null, t)
        pushed == Append(S1[sessionId].events, event)
    IN [S1 EXCEPT ![sessionId].events =
            IF Len(pushed) > MAX_EVENTS THEN slice(pushed, MAX_EVENTS) ELSE pushed]

\* the window holding the latest event alone, whatever the limit
getRecentEvents_latestOnly(S, sessionId, limit, t) ==
    slice(getSession(S, sessionId, null, t)[sessionId].events, 1)

getRecentEvents(S, sessionId, limit, t) ==
    slice(getSession(S, sessionId, null, t)[sessionId].events, limit)

updateCognitiveState(S, sessionId, cognitiveState, t) ==
    LET S1 == getSession(S, sessionId, null, t)
        pushed == Append(S1[sessionId].cognitiveStates, cognitiveState)
    IN [S1 EXCEPT ![sessionId].cognitiveStates =
            IF Len(pushed) > MAX_COGNITIVE_STATES
            THEN slice(pushed, MAX_COGNITIVE_STATES) ELSE pushed]

addAdaptation(S, sessionId, adaptation, t) ==
    LET S1 == getSession(S, sessionId, null, t)
    IN [S1 EXCEPT ![sessionId].adaptations = Append(@, adaptation)]

getRecentAdaptations(S, sessionId, limit, t) ==
    slice(getSession(S, sessionId, null, t)[sessionId].adaptations, limit)

updateSessionContext(S, sessionId, context, t) ==
    LET S1 == getSession(S, sessionId, null, t)
        S2 == IF Has(context, "currentTime")
              THEN [S1 EXCEPT ![sessionId].currentTime = context.currentTime] ELSE S1
        S3 == IF Has(context, "playbackSpeed")
              THEN [S2 EXCEPT ![sessionId].playbackSpeed = context.playbackSpeed] ELSE S2
    IN IF Has(context, "currentSection")
       THEN [S3 EXCEPT ![sessionId].currentSection = context.currentSection] ELSE S3

\* saveUserProgress(userId, bookId, progress): userProgress.set(`${userId}:${bookId}`, ...)
saveUserProgress(P, userId, bookId, progress, t) ==
    (<<userId, bookId>> :>
        [userId |-> userId, bookId |-> bookId, progress |-> progress,
         lastUpdated |-> t]) @@ P

\* the user-progress write at the end of updateSessionContext, which passes
\* (session.userId, context.currentSection, context.currentTime)
contextProgress(P, S, sessionId, context, t) ==
    IF S[sessionId].userId # null /\ Has(context, "currentSection")
    THEN saveUserProgress(P, S[sessionId].userId, context.currentSection,
                          [k \in DOMAIN context \cap {"currentTime"} |-> context[k]], t)
    ELSE P

(***************************************************************************)
(* engines/cognitiveEngine.js                                              *)
(***************************************************************************)
\* String.prototype.toUpperCase on the event-type tags that occur
toUpperCase(str) ==
    CASE str = "audio_pause" -> "AUDIO_PAUSE"
      [] str = "audio_replay" -> "AUDIO_REPLAY"
      [] OTHER -> str

\* an eventType of the request's JSON that is truthy and not a string (the
\* number 5) is written as a tag of this set
NonStringTypes == {"#5"}

\* e.eventType && e.eventType.toUpperCase(): a TypeError for the first event of
\* the window whose eventType is truthy and has no toUpperCase method
throwsTypeError(events) ==
    \E i \in 1..Len(events) :
        Has(events[i], "eventType") /\ events[i].eventType \in NonStringTypes

\* e.eventType && e.eventType.toUpperCase() === tag
isType(e, tag) == Has(e, "eventType") /\ toUpperCase(e.eventType) = tag

\* a replay test that counts AUDIO_REPLAY events alone, no backward seek
isReplay_ignoringSeek(e) == isType(e, "AUDIO_REPLAY")

isReplay(e) ==
    \/ isType(e, "AUDIO_REPLAY")
    \/ /\ isType(e, "AUDIO_SEEK")
       /\ Has(e.metadata, "seekDuration")
       /\ e.metadata.seekDuration < 0

\* e.metadata.speed || 1.0
speedOf(e) ==
    IF Has(e.metadata, "speed") /\ e.metadata.speed # 0 THEN e.metadata.speed ELSE 100

\* e.metadata.idleDuration || 0
idleOf(e) ==
    IF Has(e.metadata, "idleDuration") THEN e.metadata.idleDuration ELSE 0

\* count / (timeWindow / 60000 || 1), as a quotient with a positive denominator
perMinute(count, timeWindow) ==
    IF timeWindow = 0 THEN [num |-> count, den |-> 1]
    ELSE IF timeWindow > 0 THEN [num |-> count * MS_PER_MINUTE, den |-> timeWindow]
    ELSE [num |-> 0 - count * MS_PER_MINUTE, den |-> 0 - timeWindow]

\* the metrics with navigationReversals counting NAVIGATION_REVERSAL events alone
calculateBehaviorMetrics_explicitReversalsOnly(events) ==
    LET timeWindow == events[Len(events)].timestamp - events[1].timestamp
        pauseEvents == SelectSeq(events, LAMBDA e : isType(e, "AUDIO_PAUSE"))
        replayEvents == SelectSeq(events, isReplay)
        speedEvents == SelectSeq(events, LAMBDA e : isType(e, "AUDIO_SPEED_CHANGE"))
        navReversals == SelectSeq(events, LAMBDA e : isType(e, "NAVIGATION_REVERSAL"))
        idleEvents == SelectSeq(events, LAMBDA e : isType(e, "USER_IDLE"))
        avgSpeed == IF Len(speedEvents) > 0
                    THEN [num |-> SumSeq([i \in 1..Len(speedEvents) |-> speedOf(speedEvents[i])]),
                          den |-> Len(speedEvents)]
                    ELSE [num |-> 100, den |-> 1]
        totalIdleTime == SumSeq([i \in 1..Len(idleEvents) |-> idleOf(idleEvents[i])])
    IN [pauseFrequency |-> perMinute(Len(pauseEvents), timeWindow),
        pauseCount |-> Len(pauseEvents),
        replayCount |-> Len(replayEvents),
        avgSpeed |-> avgSpeed,
        idleTime |-> totalIdleTime,
        navigationReversals |-> Len(navReversals),
        totalEvents |-> Len(events),
        timeWindowMinutes |-> IF timeWindow = 0 THEN [num |-> 1, den |-> 1]
                              ELSE [num |-> timeWindow, den |-> MS_PER_MINUTE]]

calculateBehaviorMetrics(events) ==
    LET timeWindow == events[Len(events)].timestamp - events[1].timestamp
        pauseEvents == SelectSeq(events, LAMBDA e : isType(e, "AUDIO_PAUSE"))
        replayEvents == SelectSeq(events, isReplay)
        speedEvents == SelectSeq(events, LAMBDA e : isType(e, "AUDIO_SPEED_CHANGE"))
        navReversals == SelectSeq(events, LAMBDA e : isType(e, "NAVIGATION_REVERSAL"))
        idleEvents == SelectSeq(events, LAMBDA e : isType(e, "USER_IDLE"))
        avgSpeed == IF Len(speedEvents) > 0
                    THEN [num |-> SumSeq([i \in 1..Len(speedEvents) |-> speedOf(speedEvents[i])]),
                          den |-> Len(speedEvents)]
                    ELSE [num |-> 100, den |-> 1]
        totalIdleTime == SumSeq([i \in 1..Len(idleEvents) |-> idleOf(idleEvents[i])])
    IN [pauseFrequency |-> perMinute(Len(pauseEvents), timeWindow),
        pauseCount |-> Len(pauseEvents),
        replayCount |-> Len(replayEvents),
        avgSpeed |-> avgSpeed,
        idleTime |-> totalIdleTime,
        navigationReversals |-> IF Len(navReversals) # 0 THEN Len(navReversals)
                                ELSE Len(replayEvents),
        totalEvents |-> Len(events),
        timeWindowMinutes |-> IF timeWindow = 0 THEN [num |-> 1, den |-> 1]
                              ELSE [num |-> timeWindow, den |-> MS_PER_MINUTE]]

\* q > k, q < k and q >= k for a quotient with den > 0; k in the quotient's unit
GreaterThan(q, k) == q.num > k * q.den

LessThan(q, k) == q.num < k * q.den

AtLeast(q, k) == q.num >= k * q.den

\* the detection with engagement not asking for navigationReversals === 0
detectBehavioralPatterns_engagedDespiteReversals(metrics) ==
    (IF metrics.navigationReversals >= 1 /\ metrics.replayCount >= 1
     THEN <<"confusion">> ELSE <<>>)
    \o (IF /\ GreaterThan(metrics.pauseFrequency, 3)
           /\ LessThan(metrics.avgSpeed, 90)
           /\ metrics.replayCount >= 1
        THEN <<"overload">> ELSE <<>>)
    \o (IF metrics.idleTime > IDLE_THRESHOLD /\ LessThan(metrics.avgSpeed, 85)
        THEN <<"fatigue">> ELSE <<>>)
    \o (IF metrics.navigationReversals >= 3
        THEN <<"navigation_difficulty">> ELSE <<>>)
    \o (IF LessThan(metrics.pauseFrequency, 1) /\ AtLeast(metrics.avgSpeed, 90)
        THEN <<"engagement">> ELSE <<>>)
    \o (IF GreaterThan(metrics.pauseFrequency, 6) THEN <<"struggle">> ELSE <<>>)
    \o (IF metrics.replayCount >= 2 THEN <<"repetition_spike">> ELSE <<>>)

detectBehavioralPatterns(metrics) ==
    (IF metrics.navigationReversals >= 1 /\ metrics.replayCount >= 1
     THEN <<"confusion">> ELSE <<>>)
    \o (IF /\ GreaterThan(metrics.pauseFrequency, 3)
           /\ LessThan(metrics.avgSpeed, 90)
           /\ metrics.replayCount >= 1
        THEN <<"overload">> ELSE <<>>)
    \o (IF metrics.idleTime > IDLE_THRESHOLD /\ LessThan(metrics.avgSpeed, 85)
        THEN <<"fatigue">> ELSE <<>>)
    \o (IF metrics.navigationReversals >= 3
        THEN <<"navigation_difficulty">> ELSE <<>>)
    \o (IF /\ LessThan(metrics.pauseFrequency, 1)
           /\ AtLeast(metrics.avgSpeed, 90)
           /\ metrics.navigationReversals = 0
        THEN <<"engagement">> ELSE <<>>)
    \o (IF GreaterThan(metrics.pauseFrequency, 6) THEN <<"struggle">> ELSE <<>>)
    \o (IF metrics.replayCount >= 2 THEN <<"repetition_spike">> ELSE <<>>)

\* the load rule without struggle among the high-load patterns
inferCognitiveLoad_withoutStruggle(patterns, metrics) ==
    IF \/ includes(patterns, "overload")
       \/ (includes(patterns, "confusion") /\ includes(patterns, "fatigue"))
    THEN "high"
    ELSE IF \/ includes(patterns, "confusion")
            \/ includes(patterns, "fatigue")
            \/ includes(patterns, "navigation_difficulty")
            \/ includes(patterns, "repetition_spike")
            \/ GreaterThan(metrics.pauseFrequency, 2)
    THEN "medium"
    ELSE "low"

inferCognitiveLoad(patterns, metrics) ==
    IF \/ includes(patterns, "overload")
       \/ includes(patterns, "struggle")
       \/ (includes(patterns, "confusion") /\ includes(patterns, "fatigue"))
    THEN "high"
    ELSE IF \/ includes(patterns, "confusion")
            \/ includes(patterns, "fatigue")
            \/ includes(patterns, "navigation_difficulty")
            \/ includes(patterns, "repetition_spike")
            \/ GreaterThan(metrics.pauseFrequency, 2)
    THEN "medium"
    ELSE "low"

\* the confidence without the 0.8 ceiling on the share of the sample size
calculateConfidence_withoutSampleCap(eventCount, patterns) ==
    LET base == (eventCount * 100) \div 20
        one == IF Len(patterns) > 0 THEN base + 10 ELSE base
        two == IF Len(patterns) >= 2 THEN one + 10 ELSE one
    IN Min(two, 100)

\* in hundredths: Math.min(eventCount / 20, 0.8), + 0.1, + 0.1, capped at 1.0
calculateConfidence(eventCount, patterns) ==
    LET base == Min((eventCount * 100) \div 20, 80)
        one == IF Len(patterns) > 0 THEN base + 10 ELSE base
        two == IF Len(patterns) >= 2 THEN one + 10 ELSE one
    IN Min(two, 100)

\* an empty-window result that zeroes the speed and the confidence as well
EmptyWindowState_zeroed(sessionId, t) ==
    [sessionId |-> sessionId, cognitiveLoad |-> "low", patterns |-> <<>>,
     confidence |-> 0, timestamp |-> t,
     behaviorSummary |->
        [pauseFrequency |-> [num |-> 0, den |-> 1], replayCount |-> 0,
         avgSpeed |-> [num |-> 0, den |-> 1],
         idleTime |-> 0, navigationReversals |-> 0]]

\* the result for !events || events.length === 0
EmptyWindowState(sessionId, t) ==
    [sessionId |-> sessionId, cognitiveLoad |-> "low", patterns |-> <<>>,
     confidence |-> 50, timestamp |-> t,
     behaviorSummary |->
        [pauseFrequency |-> [num |-> 0, den |-> 1], replayCount |-> 0,
         avgSpeed |-> [num |-> 100, den |-> 1],
         idleTime |-> 0, navigationReversals |-> 0]]

\* args carries the first argument under "events" when the caller passed an
\* array, and is empty when it passed none (!events)
inferCognitiveState(args, sessionId, t) ==
    IF ~Has(args, "events") \/ Len(args.events) = 0
    THEN EmptyWindowState(sessionId, t)
    ELSE LET events == args.events
             metrics == calculateBehaviorMetrics(events)
             patterns == detectBehavioralPatterns(metrics)
         IN [sessionId |-> sessionId,
             cognitiveLoad |-> inferCognitiveLoad(patterns, metrics),
             patterns |-> patterns,
             confidence |-> calculateConfidence(Len(events), patterns),
             timestamp |-> t,
             behaviorSummary |-> metrics]

\* the engine's recommendation without the baseline pause of the high-load rule
recommendAdaptations_withoutBaselinePause(cognitiveState) ==
    unique(
        (IF cognitiveState.cognitiveLoad = "high"
         THEN <<"SLOW_NARRATION">>
              \o (IF includes(cognitiveState.patterns, "confusion")
                  THEN <<"AUTO_REPEAT", "SUMMARY_INJECTION">> ELSE <<>>)
         ELSE <<>>)
        \o
        (IF cognitiveState.cognitiveLoad = "medium"
         THEN <<"SLOW_NARRATION">>
              \o (IF includes(cognitiveState.patterns, "confusion")
                  THEN <<"AUTO_REPEAT">> ELSE <<>>)
              \o (IF includes(cognitiveState.patterns, "navigation_difficulty")
                  THEN <<"SIMPLIFY_INTERACTION">> ELSE <<>>)
         ELSE <<>>))

\* recommendAdaptations as cognitiveEngine.js exports it (the copy the in-process
\* event processor imports)
cognitiveEngine_recommendAdaptations(cognitiveState) ==
    unique(
        (IF cognitiveState.cognitiveLoad = "high"
         THEN <<"SLOW_NARRATION", "SMART_PAUSE">>
              \o (IF includes(cognitiveState.patterns, "overload")
                  THEN <<"SLOW_NARRATION">> ELSE <<>>)
              \o (IF includes(cognitiveState.patterns, "confusion")
                  THEN <<"AUTO_REPEAT", "SUMMARY_INJECTION">> ELSE <<>>)
         ELSE <<>>)
        \o
        (IF cognitiveState.cognitiveLoad = "medium"
         THEN <<"SLOW_NARRATION">>
              \o (IF includes(cognitiveState.patterns, "fatigue")
                  THEN <<"SLOW_NARRATION">> ELSE <<>>)
              \o (IF includes(cognitiveState.patterns, "confusion")
                  THEN <<"AUTO_REPEAT">> ELSE <<>>)
              \o (IF includes(cognitiveState.patterns, "navigation_difficulty")
                  THEN <<"SIMPLIFY_INTERACTION">> ELSE <<>>)
         ELSE <<>>))

(***************************************************************************)
(* services/adaptationService.js                                           *)
(***************************************************************************)
\* cognitiveState.behaviorSummary?.pauseCount || 0
pauseCountOf(cognitiveState) ==
    IF Has(cognitiveState, "behaviorSummary")
       /\ Has(cognitiveState.behaviorSummary, "pauseCount")
    THEN cognitiveState.behaviorSummary.pauseCount ELSE 0

recommendAdaptations(cognitiveState) ==
    LET patterns == cognitiveState.patterns
        pauseCount == pauseCountOf(cognitiveState)
        stressed == includes(patterns, "overload") \/ includes(patterns, "struggle")
    IN unique(
        (IF cognitiveState.cognitiveLoad = "high"
         THEN <<"SMART_PAUSE">>
              \o (IF pauseCount >= 2 \/ stressed THEN <<"SLOW_NARRATION">> ELSE <<>>)
              \o (IF stressed THEN <<"SMART_PAUSE">> ELSE <<>>)
              \o (IF includes(patterns, "confusion") \/ includes(patterns, "repetition_spike")
                  THEN <<"AUTO_REPEAT", "SUMMARY_INJECTION">> ELSE <<>>)
         ELSE <<>>)
        \o
        (IF cognitiveState.cognitiveLoad = "medium"
         THEN (IF pauseCount >= 3 \/ includes(patterns, "fatigue")
               THEN <<"SLOW_NARRATION">> ELSE <<>>)
              \o (IF includes(patterns, "confusion") THEN <<"AUTO_REPEAT">> ELSE <<>>)
              \o (IF includes(patterns, "navigation_difficulty")
                     \/ includes(patterns, "repetition_spike")
                  THEN <<"SIMPLIFY_INTERACTION", "SUMMARY_INJECTION">> ELSE <<>>)
         ELSE <<>>))

generateSummary(context) ==
    LET sectionId == IF Has(context, "currentSection") THEN context.currentSection
                     ELSE "undefined"
    IN CASE sectionId = "chapter-1" ->
              "Summary: This chapter introduced the main character and setting."
         [] sectionId = "chapter-2" ->
              "Summary: The conflict was established and key relationships formed."
         [] sectionId = "chapter-3" ->
              "Summary: The protagonist faced their first major challenge."
         [] OTHER -> "Summary: Let's recap what we've covered so far in this section."

\* the parameters of SLOW_NARRATION: the two-stage slowdown
slowNarrationParameters(context) ==
    LET currentSpeed == IF Has(context, "currentSpeed") /\ context.currentSpeed # 0
                        THEN context.currentSpeed ELSE 100
    IN [targetSpeed |-> IF currentSpeed > 75 THEN 75 ELSE 50, duration |-> 15000]

\* AUTO_REPEAT rewinding by 30 s without the clamp at the start of the audio
autoRepeatParameters_unclamped(context) ==
    [replayDuration |-> REPLAY_SECONDS,
     currentTime |-> IF Has(context, "currentTime") THEN context.currentTime ELSE 0,
     targetTime |-> (IF Has(context, "currentTime") /\ context.currentTime # 0
                     THEN context.currentTime ELSE 30) - REPLAY_SECONDS]

\* the parameters of AUTO_REPEAT
autoRepeatParameters(context) ==
    [replayDuration |-> REPLAY_SECONDS,
     currentTime |-> IF Has(context, "currentTime") THEN context.currentTime ELSE 0,
     targetTime |-> Max(0, (IF Has(context, "currentTime") /\ context.currentTime # 0
                            THEN context.currentTime ELSE 30) - REPLAY_SECONDS)]

createAdaptation(cognitiveState, strategy, triggeredBy, context, adaptationId, t) ==
    LET head == [adaptationId |-> adaptationId, sessionId |-> cognitiveState.sessionId,
                 strategy |-> strategy, timestamp |-> t, triggeredBy |-> triggeredBy]
    IN CASE strategy = "SLOW_NARRATION" ->
              head @@ [reason |-> "High cognitive load detected - adjusting narration speed",
                       parameters |-> slowNarrationParameters(context)]
         [] strategy = "AUTO_REPEAT" ->
              head @@ [reason |-> "Confusion pattern detected - replaying recent content for reinforcement",
                       parameters |-> autoRepeatParameters(context)]
         [] strategy = "SMART_PAUSE" ->
              head @@ [reason |-> "Cognitive overload detected - providing pause for processing",
                       parameters |-> [pauseDuration |-> 3000, audioCue |-> TRUE,
                                       resumeMessage |-> "Resuming audio in 3 seconds..."]]
         [] strategy = "SUMMARY_INJECTION" ->
              head @@ [reason |-> IF includes(triggeredBy, "repetition_spike")
                                  THEN "Multiple rewinds detected - providing section summary for clarity"
                                  ELSE "Disorientation detected - providing section summary",
                       parameters |-> [summaryText |-> generateSummary(context),
                                       insertBefore |-> TRUE, summaryDuration |-> 10000]]
         [] strategy = "SIMPLIFY_INTERACTION" ->
              head @@ [reason |-> "High cognitive load - reducing interface complexity",
                       parameters |-> [hideControls |-> <<"skip", "rewind", "chapters">>,
                                       showEssentialOnly |-> <<"play", "pause">>,
                                       duration |-> 120000]]

\* executeAdaptations handing cognitiveState.patterns to createAdaptation as it
\* is, with no sentinel for a state without patterns
executeAdaptations_withoutSentinel(cognitiveState, strategies, context, firstId, t) ==
    [i \in 1..Len(strategies) |->
        createAdaptation(cognitiveState, strategies[i], cognitiveState.patterns, context,
                         firstId + i - 1, t)]

\* every strategy the engines recommend is a key of createAdaptation's table;
\* the i-th adaptation takes the i-th uuid drawn
executeAdaptations(cognitiveState, strategies, context, firstId, t) ==
    LET patterns == IF Len(cognitiveState.patterns) > 0 THEN cognitiveState.patterns
                    ELSE <<"behavioral-signals">>
    IN [i \in 1..Len(strategies) |->
            createAdaptation(cognitiveState, strategies[i], patterns, context,
                             firstId + i - 1, t)]

\* the filter with the rate cap alone, no per-strategy cooldown
shouldApplyAdaptation_rateCapOnly(recentAdaptations, strategy, t) ==
    LET veryRecentAdaptations ==
            SelectSeq(recentAdaptations, LAMBDA a : (t - a.timestamp) < RATE_WINDOW)
    IN Len(veryRecentAdaptations) < RATE_CAP

shouldApplyAdaptation(recentAdaptations, strategy, t) ==
    LET recentSameStrategy ==
            SelectSeq(recentAdaptations,
                      LAMBDA a : a.strategy = strategy /\ (t - a.timestamp) < cooldownPeriod)
        veryRecentAdaptations ==
            SelectSeq(recentAdaptations, LAMBDA a : (t - a.timestamp) < RATE_WINDOW)
    IN IF Len(recentSameStrategy) > 0 THEN FALSE
       ELSE IF Len(veryRecentAdaptations) >= RATE_CAP THEN FALSE
       ELSE TRUE

(***************************************************************************)
(* events/eventProcessor.js: processEvent, the cognitive feedback loop.    *)
(* The in-memory store is synchronous and processEvent awaits nothing, so  *)
(* one call runs to its end inside the handler that made it.  The result   *)
(* is the store it leaves, the next unused uuid and what it logged.        *)
(***************************************************************************)
\* strategies.reduce over addAdaptation
RECURSIVE addAdaptations(_, _, _, _)
addAdaptations(S, sessionId, adaptations, t) ==
    IF adaptations = <<>> THEN S
    ELSE addAdaptations(addAdaptation(S, sessionId, adaptations[1], t),
                        sessionId, Tail(adaptations), t)

processEvent(S, event, firstId, t) ==
    LET sessionId == event.sessionId
        recentEvents == getRecentEvents(S, sessionId, EVENT_WINDOW, t)
        cognitiveState == inferCognitiveState([events |-> recentEvents], sessionId, t)
        S1 == updateCognitiveState(S, sessionId, cognitiveState, t)
        recommendedStrategies == cognitiveEngine_recommendAdaptations(cognitiveState)
        recentAdaptations == getRecentAdaptations(S1, sessionId, ADAPTATION_HISTORY, t)
        applicableStrategies ==
            SelectSeq(recommendedStrategies,
                      LAMBDA strategy : shouldApplyAdaptation(recentAdaptations, strategy, t))
        session == getSession(S1, sessionId, null, t)[sessionId]
        context == [currentTime |-> session.currentTime,
                    currentSpeed |-> session.playbackSpeed,
                    currentSection |-> session.currentSection]
        adaptations == executeAdaptations(cognitiveState, applicableStrategies,
                                          context, firstId, t)
        log == [eventId |-> event.eventId, sessionId |-> sessionId,
                cognitiveLoad |-> cognitiveState.cognitiveLoad,
                patterns |-> cognitiveState.patterns,
                recommended |-> recommendedStrategies]
    IN IF throwsTypeError(recentEvents)
       THEN \* inferCognitiveState throws: the catch logs the error and returns
            [sessions |-> S, nextId |-> firstId,
             log |-> [eventId |-> event.eventId, sessionId |-> sessionId,
                      outcome |-> "Processing error", applied |-> 0]]
       ELSE IF Len(recommendedStrategies) = 0
       THEN [sessions |-> S1, nextId |-> firstId,
             log |-> log @@ [outcome |-> "No adaptations needed", applied |-> 0]]
       ELSE IF Len(applicableStrategies) = 0
       THEN [sessions |-> S1, nextId |-> firstId,
             log |-> log @@ [outcome |-> "All recommended adaptations in cooldown",
                             applied |-> 0]]
       ELSE [sessions |-> addAdaptations(S1, sessionId, adaptations, t),
             nextId |-> firstId + Len(adaptations),
             log |-> log @@ [outcome |-> "Applied", applied |-> Len(adaptations)]]

(***************************************************************************)
(* controllers/eventController.js                                          *)
(***************************************************************************)
\* the event POST /ingest builds from the request body
ingestEvent(body, eventId, t) ==
    [eventId |-> eventId, sessionId |-> body.sessionId, eventType |-> body.eventType,
     timestamp |-> t,
     metadata |-> IF Has(body, "metadata") THEN body.metadata ELSE EmptyMap]

\* the context POST /ingest passes to updateSessionContext: the keys whose
\* metadata value is not undefined
ingestContext(metadata) ==
    [k \in {c \in {"currentTime", "playbackSpeed", "currentSection"} :
               \/ c = "currentTime" /\ Has(metadata, "currentTime")
               \/ c = "playbackSpeed" /\ Has(metadata, "speed")
               \/ c = "currentSection" /\ Has(metadata, "sectionId")} |->
        CASE k = "currentTime" -> metadata.currentTime
          [] k = "playbackSpeed" -> metadata.speed
          [] k = "currentSection" -> metadata.sectionId]

\* POST /api/events/ingest
Ingest(body) ==
    /\ service = "server"
    /\ UNCHANGED <<call, service, table, calls, client>>
    /\ IF ~Has(body, "sessionId") \/ ~Has(body, "eventType")
       THEN /\ res' = [status |-> 400,
                       error |-> "Missing required fields: sessionId, eventType"]
            /\ UNCHANGED <<sessions, userProgress, now, nextId, loopLog>>
       ELSE LET sessionId == body.sessionId
                event == ingestEvent(body, nextId, now)
                S1 == addEvent(sessions, sessionId, event, now)
            IN IF ~Has(body, "metadata")
               THEN \* metadata.currentTime throws a TypeError: the catch answers 500
                    /\ sessions' = S1
                    /\ nextId' = nextId + 1
                    /\ res' = [status |-> 500, error |-> "Failed to ingest event"]
                    /\ UNCHANGED <<userProgress, now, loopLog>>
               ELSE LET context == ingestContext(body.metadata)
                        S2 == IF DOMAIN context # {}
                              THEN updateSessionContext(S1, sessionId, context, now) ELSE S1
                        done == processEvent(S2, event, nextId + 1, now)
                    IN /\ sessions' = done.sessions
                       /\ userProgress' =
                             IF DOMAIN context # {}
                             THEN contextProgress(userProgress, S2, sessionId, context, now)
                             ELSE userProgress
                       /\ nextId' = done.nextId
                       /\ loopLog' = done.log
                       /\ res' = [status |-> 200, success |-> TRUE,
                                  eventId |-> event.eventId, timestamp |-> event.timestamp]
                       /\ UNCHANGED now

\* the event POST /batch builds from the i-th element e of the request's array
batchEvent(sessionId, e, eventId, t) ==
    [k \in {"eventId", "sessionId", "timestamp", "metadata"}
            \cup (DOMAIN e \cap {"eventType"}) |->
        CASE k = "eventId" -> eventId
          [] k = "sessionId" -> sessionId
          [] k = "eventType" -> e.eventType
          [] k = "timestamp" -> IF Has(e, "timestamp") /\ e.timestamp # 0
                                THEN e.timestamp ELSE t
          [] k = "metadata" -> IF Has(e, "metadata") THEN e.metadata ELSE EmptyMap]

\* events.map(e => { ...; addEvent(sessionId, event); return event })
RECURSIVE addBatch(_, _, _, _, _)
addBatch(S, sessionId, events, firstId, t) ==
    IF events = <<>> THEN S
    ELSE addBatch(addEvent(S, sessionId, batchEvent(sessionId, events[1], firstId, t), t),
                  sessionId, Tail(events), firstId + 1, t)

\* POST /api/events/batch
IngestBatch(body) ==
    /\ service = "server"
    /\ UNCHANGED <<call, service, table, calls, client>>
    /\ IF ~Has(body, "sessionId") \/ ~Has(body, "events")
       THEN /\ res' = [status |-> 400,
                       error |-> "Missing required fields: sessionId, events array"]
            /\ UNCHANGED <<sessions, userProgress, now, nextId, loopLog>>
       ELSE LET sessionId == body.sessionId
                n == Len(body.events)
                S1 == addBatch(sessions, sessionId, body.events, nextId, now)
            IN /\ IF n > 0
                  THEN LET lastEvent == batchEvent(sessionId, body.events[n],
                                                   nextId + n - 1, now)
                           done == processEvent(S1, lastEvent, nextId + n, now)
                       IN /\ sessions' = done.sessions
                          /\ nextId' = done.nextId
                          /\ loopLog' = done.log
                  ELSE UNCHANGED <<sessions, nextId, loopLog>>
               /\ res' = [status |-> 200, success |-> TRUE, processedCount |-> n]
               /\ UNCHANGED <<userProgress, now>>

(***************************************************************************)
(* The in-process server (server.js): requests are handled one at a time,  *)
(* each handler running to its end; time passes between requests.          *)
(***************************************************************************)
NoResponse == [status |-> 0]
NoLoop == [eventId |-> 0]
NoCall == EmptyMap
NoClient == EmptyMap

\* the server has just started: the Maps are empty, nothing was handled
ServerStarted ==
    /\ sessions = EmptyMap
    /\ userProgress = EmptyMap
    /\ nextId = 1
    /\ res = NoResponse
    /\ loopLog = NoLoop

\* no invocation of the engine is followed
EngineIdle == call = NoCall

\* the data service is not followed: its table is empty, no operation in flight
DataServiceIdle == table = EmptyMap /\ calls = {}

\* no browser is followed
ClientClosed == client = NoClient

Init ==
    /\ now = 0
    /\ service = "server"
    /\ ServerStarted
    /\ EngineIdle
    /\ DataServiceIdle
    /\ ClientClosed

\* the number of events the store holds for sessionId
StoredEvents(sessionId) ==
    IF sessionId \in DOMAIN sessions THEN Len(sessions[sessionId].events) ELSE 0

\* the clock advances by step while it stays within limit
Advance(step, limit) ==
    /\ now + step <= limit
    /\ now' = now + step
    /\ UNCHANGED <<sessions, userProgress, nextId, res, loopLog, call, service, table, calls, client>>

MaxTicks == 2
MaxRequests == 4
TickSteps == {2500}

Tick == \E step \in TickSteps : Advance(step, MaxTicks * step)

IngestBodies ==
    { [sessionId |-> "s1", eventType |-> "AUDIO_REPLAY", metadata |-> [currentTime |-> 100]],
      [sessionId |-> "s1", eventType |-> "AUDIO_PAUSE", metadata |-> [speed |-> 75]],
      [sessionId |-> "s1", eventType |-> "FOO", metadata |-> EmptyMap],
      [sessionId |-> "s1", eventType |-> "AUDIO_REPLAY"],
      [sessionId |-> "s1", metadata |-> EmptyMap],
      [eventType |-> "AUDIO_PAUSE", metadata |-> EmptyMap] }

BatchBodies ==
    { [sessionId |-> "s1",
       events |-> << [eventType |-> "AUDIO_REPLAY", timestamp |-> 1],
                     [eventType |-> "NAVIGATION_REVERSAL",
                      metadata |-> [currentTime |-> 50]] >>],
      [sessionId |-> "s1"] }

Next ==
    \/ Tick
    \/ \E body \in IngestBodies : StoredEvents("s1") < MaxRequests /\ Ingest(body)
    \/ \E body \in BatchBodies : StoredEvents("s1") < MaxRequests /\ IngestBatch(body)

Spec == Init /\ [][Next]_vars

(***************************************************************************)
(* Vocabulary of the claims                                                *)
(***************************************************************************)
\* types/index.ts: BehavioralEventType
BehavioralEventType ==
    {"AUDIO_PLAY", "AUDIO_PAUSE", "AUDIO_SPEED_CHANGE", "AUDIO_REPLAY", "AUDIO_SEEK",
     "NAVIGATION_REVERSAL", "USER_IDLE", "SECTION_COMPLETE", "SESSION_START",
     "SESSION_END"}

\* the pattern tags, in the order detectBehavioralPatterns pushes them
PatternTags ==
    <<"confusion", "overload", "fatigue", "navigation_difficulty", "engagement",
      "struggle", "repetition_spike">>

\* every pattern list: one per subset of the tags
PatternLists ==
    { SelectSeq(PatternTags, LAMBDA p : p \in chosen) :
        chosen \in SUBSET {PatternTags[i] : i \in 1..Len(PatternTags)} }

\* this step ran a loop execution (each execution logs the id of its event)
LoopRan == loopLog'.eventId # loopLog.eventId

\* the adaptation log of sessionId in the store S
AdaptationsOf(S, sessionId) ==
    IF sessionId \in DOMAIN S THEN S[sessionId].adaptations ELSE <<>>

\* the adaptations this step appended to sessionId's log
Appended(sessionId) ==
    SubSeq(sessions'[sessionId].adaptations,
           Len(AdaptationsOf(sessions, sessionId)) + 1,
           Len(sessions'[sessionId].adaptations))

\* the indices of the adaptations of seq with the strategy
WithStrategy(seq, strategy) == {j \in 1..Len(seq) : seq[j].strategy = strategy}

(***************************************************************************)
(* C4.  Per-strategy cooldown.  In every loop execution, a recommended     *)
(* strategy that the session's adaptation log shows applied less than 5    *)
(* seconds ago is filtered: no decision for it is appended.  A recommended *)
(* strategy last applied 5 seconds ago or more (or never) is appended once *)
(* (the global cap not being reached).                                     *)
(***************************************************************************)
C4_Step ==
    LoopRan =>
        LET sessionId == loopLog'.sessionId
            before == AdaptationsOf(sessions, sessionId)
            capReached ==
                Cardinality({j \in 1..Len(before) : now' - before[j].timestamp < 60000}) >= 20
        IN \A i \in 1..Len(loopLog'.recommended) :
              LET strategy == loopLog'.recommended[i]
                  inCooldown ==
                      \E j \in WithStrategy(before, strategy) :
                          now' - before[j].timestamp < 5000
                  decided == WithStrategy(Appended(sessionId), strategy)
              IN /\ inCooldown => decided = {}
                 /\ (~inCooldown /\ ~capReached) => Cardinality(decided) = 1

MaxPauseCount == 3

HighLoadStates ==
    { [sessionId |-> "s1", cognitiveLoad |-> "high", patterns |-> p,
       behaviorSummary |-> [pauseCount |-> n]] :
        p \in PatternLists, n \in 0..MaxPauseCount }

C8_EveryHighState ==
    \A cs \in HighLoadStates :
        /\ includes(recommendAdaptations(cs), "SMART_PAUSE")
        /\ includes(cognitiveEngine_recommendAdaptations(cs), "SMART_PAUSE")

C8_Step ==
    (LoopRan /\ loopLog'.cognitiveLoad = "high") =>
        /\ includes(loopLog'.recommended, "SMART_PAUSE")
        /\ AdaptationsOf(sessions, loopLog'.sessionId) = <<>> =>
               WithStrategy(Appended(loopLog'.sessionId), "SMART_PAUSE") # {}

C8_HighLoadSmartPause == [][C8_EveryHighState /\ C8_Step]_vars

\* the first decisions of a session were made for a high-load state
C8_Witness ==
    /\ "s1" \in DOMAIN sessions
    /\ loopLog.eventId # 0
    /\ loopLog.cognitiveLoad = "high"
    /\ LET log == sessions["s1"].adaptations
       IN /\ log # <<>>
          /\ \A j \in 1..Len(log) : log[j].timestamp = now
          /\ WithStrategy(log, "SMART_PAUSE") # {}

(***************************************************************************)
(* C10.  ingest is rejected with InvalidEvent (status 400), and stores     *)
(* nothing, whenever sessionId is missing, eventType is missing, or        *)
(* eventType is not a recognized event-type tag.                           *)
(***************************************************************************)
InvalidEvent(body) ==
    \/ ~Has(body, "sessionId")
    \/ ~Has(body, "eventType")
    \/ body.eventType \notin BehavioralEventType

C10_InvalidEventRejected ==
    [][\A body \in IngestBodies :
          (InvalidEvent(body) /\ Ingest(body)) =>
              (res'.status = 400 /\ sessions' = sessions)]_vars

(***************************************************************************)
(* The replay scenario: a fresh session receives replays and navigation    *)
(* reversals by single ingest, with and without a playback position.       *)
(***************************************************************************)
MaxReplayRequests == 5

ReplayBodies ==
    { [sessionId |-> "s1", eventType |-> "AUDIO_REPLAY", metadata |-> [currentTime |-> 100]],
      [sessionId |-> "s1", eventType |-> "AUDIO_REPLAY", metadata |-> EmptyMap],
      [sessionId |-> "s1", eventType |-> "NAVIGATION_REVERSAL",
       metadata |-> [currentTime |-> 10]] }

IngestReplay ==
    \E body \in ReplayBodies : StoredEvents("s1") < MaxReplayRequests /\ Ingest(body)

NextReplay == Tick \/ IngestReplay

SpecReplay == Init /\ [][NextReplay]_vars

\* the event log of the session is four replays and one navigation reversal,
\* ingested within one minute, and the loop of the last of them has run
FourReplaysOneReversal(session) ==
    LET log == session.events
    IN /\ Len(log) = 5
       /\ Cardinality({i \in 1..5 : log[i].eventType = "AUDIO_REPLAY"}) = 4
       /\ Cardinality({i \in 1..5 : log[i].eventType = "NAVIGATION_REVERSAL"}) = 1
       /\ log[5].timestamp - log[1].timestamp < 60000
       /\ loopLog.eventId = log[5].eventId

(***************************************************************************)
(* C9.  End to end, for a fresh session: after 4 REPLAY events and 1       *)
(* NAVIGATION_REVERSAL event were ingested within one minute, the current  *)
(* cognitive state has the patterns confusion and repetition_spike and its *)
(* load is medium or high, and the adaptation log holds an AUTO_REPEAT     *)
(* decision; every AUTO_REPEAT decision a loop execution appends has       *)
(* targetTime = max(0, currentTime - 30) for the session's currentTime at  *)
(* the decision.                                                           *)
(***************************************************************************)
C9_State ==
    \A sessionId \in DOMAIN sessions :
        LET session == sessions[sessionId]
        IN FourReplaysOneReversal(session) =>
              /\ session.cognitiveStates # <<>>
              /\ LET current == session.cognitiveStates[Len(session.cognitiveStates)]
                 IN /\ includes(current.patterns, "confusion")
                    /\ includes(current.patterns, "repetition_spike")
                    /\ current.cognitiveLoad \in {"medium", "high"}
              /\ WithStrategy(session.adaptations, "AUTO_REPEAT") # {}

C9_Step ==
    LoopRan =>
        LET sessionId == loopLog'.sessionId
            appended == Appended(sessionId)
        IN \A j \in WithStrategy(appended, "AUTO_REPEAT") :
              /\ appended[j].parameters.targetTime
                    = Max(0, sessions'[sessionId].currentTime - 30)
              /\ appended[j].timestamp = now'

C9_ReplayScenario == [][C9_State' /\ C9_Step]_vars

\* the scenario has run and left AUTO_REPEAT decisions, one of them clamped at 0
C9_Witness ==
    /\ "s1" \in DOMAIN sessions
    /\ FourReplaysOneReversal(sessions["s1"])
    /\ LET log == sessions["s1"].adaptations
       IN /\ \E j \in WithStrategy(log, "AUTO_REPEAT") : log[j].parameters.targetTime = 70
          /\ \E j \in WithStrategy(log, "AUTO_REPEAT") :
                 log[j].parameters.currentTime = 10 /\ log[j].parameters.targetTime = 0

(***************************************************************************)
(* The burst scenario: a batch of seven pauses and a replay, then single   *)
(* pauses every five seconds.                                              *)
(***************************************************************************)
MaxBurstEvents == 13
MaxBurstTicks == 5
BurstSteps == {5000}

Pause == [eventType |-> "AUDIO_PAUSE"]

BurstBatch ==
    [sessionId |-> "s1",
     events |-> <<Pause, Pause, Pause, Pause, Pause, Pause, Pause,
                  [eventType |-> "AUDIO_REPLAY"]>>]

BurstPause == [sessionId |-> "s1", eventType |-> "AUDIO_PAUSE", metadata |-> EmptyMap]

BurstTick == \E step \in BurstSteps : Advance(step, MaxBurstTicks * step)

\* the batch opens the session
IngestBurstBatch == StoredEvents("s1") = 0 /\ IngestBatch(BurstBatch)

IngestBurstPause == StoredEvents("s1") < MaxBurstEvents /\ Ingest(BurstPause)

NextBurst == BurstTick \/ IngestBurstBatch \/ IngestBurstPause

SpecBurst == Init /\ [][NextBurst]_vars

(***************************************************************************)
(* C5.  Global rate cap.  If 20 or more adaptations were appended to a     *)
(* session within the trailing 60 seconds, the next loop execution for     *)
(* that session appends no adaptation, whatever it recommends.             *)
(***************************************************************************)
C5_Step ==
    LoopRan =>
        LET sessionId == loopLog'.sessionId
            before == AdaptationsOf(sessions, sessionId)
        IN Cardinality({j \in 1..Len(before) : now' - before[j].timestamp < 60000}) >= 20
              => Appended(sessionId) = <<>>

C5_GlobalRateCap == [][C5_Step]_vars

(***************************************************************************)
(* The engine called on its own: a caller passes an event window (or none) *)
(* and a session id to the exported inferCognitiveState.                   *)
(***************************************************************************)
MaxWindow == 3

WindowTimes == {0, 10000}

WindowEvents ==
    { [eventType |-> type, timestamp |-> t, metadata |-> EmptyMap] :
        type \in {"AUDIO_PAUSE", "AUDIO_REPLAY", "NAVIGATION_REVERSAL", "AUDIO_PLAY"},
        t \in WindowTimes }
    \cup { [eventType |-> "AUDIO_SPEED_CHANGE", timestamp |-> t, metadata |-> [speed |-> 75]] :
             t \in WindowTimes }
    \cup { [eventType |-> "USER_IDLE", timestamp |-> t,
            metadata |-> [idleDuration |-> 40000]] : t \in WindowTimes }

\* seven pauses at one instant: pauseFrequency 7 and no other signal
SevenPauses == [i \in 1..7 |-> [eventType |-> "AUDIO_PAUSE", timestamp |-> 0,
                                metadata |-> EmptyMap]]

Windows ==
    UNION { [1..n -> WindowEvents] : n \in 0..MaxWindow } \cup {SevenPauses}

EngineCalls ==
    { [sessionId |-> sessionId, args |-> args] :
        sessionId \in {"s1", "s2"},
        args \in {EmptyMap} \cup { [events |-> w] : w \in Windows } }

InitEngine ==
    /\ now \in {0, 2500}
    /\ service = "engine"
    /\ ServerStarted
    /\ call \in EngineCalls
    /\ DataServiceIdle
    /\ ClientClosed

\* inferCognitiveState(events, sessionId) returns
Infer ==
    /\ service = "engine"
    /\ Has(call, "args")
    /\ ~Has(call, "returned")
    /\ call' = call @@ [returned |-> inferCognitiveState(call.args, call.sessionId, now)]
    /\ UNCHANGED <<sessions, userProgress, now, nextId, res, loopLog, service, table, calls,
                 client>>

NextEngine == Infer

SpecEngine == InitEngine /\ [][NextEngine]_vars

(***************************************************************************)
(* C6.  For an empty or absent event window, inference returns             *)
(* cognitiveLoad = low, confidence = 0.5, patterns = [] and a behaviour    *)
(* summary whose counts and frequencies are all zero and whose avgSpeed is *)
(* 1.0, for every sessionId (which the result carries).                    *)
(***************************************************************************)
C6_EmptyWindow ==
    (Has(call, "returned") /\ (~Has(call.args, "events") \/ call.args.events = <<>>)) =>
        /\ call.returned.sessionId = call.sessionId
        /\ call.returned.cognitiveLoad = "low"
        /\ call.returned.confidence = 50
        /\ call.returned.patterns = <<>>
        /\ LET summary == call.returned.behaviorSummary
           IN /\ summary.pauseFrequency.num = 0
              /\ summary.replayCount = 0
              /\ summary.idleTime = 0
              /\ summary.navigationReversals = 0
              /\ summary.avgSpeed.num = 100 * summary.avgSpeed.den

\* inference has returned for an absent window and session s2
C6_Witness ==
    /\ Has(call, "returned")
    /\ ~Has(call.args, "events")
    /\ call.sessionId = "s2"
    /\ call.returned.sessionId = "s2"
    /\ call.returned.confidence = 50

(***************************************************************************)
(* C7.  For every event window whose pauseFrequency exceeds 6 per minute,  *)
(* the inferred patterns include struggle and the inferred cognitiveLoad   *)
(* is high.                                                                *)
(***************************************************************************)
C7_StruggleIsHigh ==
    (/\ Has(call, "returned")
     /\ Has(call.args, "events")
     /\ call.args.events # <<>>
     /\ GreaterThan(call.returned.behaviorSummary.pauseFrequency, 6)) =>
        /\ includes(call.returned.patterns, "struggle")
        /\ call.returned.cognitiveLoad = "high"

\* inference has returned for seven pauses with no other signal
C7_Witness ==
    /\ Has(call, "returned")
    /\ call.args = [events |-> SevenPauses]
    /\ call.returned.behaviorSummary.pauseFrequency = [num |-> 7, den |-> 1]
    /\ call.returned.patterns = <<"struggle">>
    /\ call.returned.cognitiveLoad = "high"

(***************************************************************************)
(* dataStore.js of the data service: the DynamoDB store.  Every            *)
(* docClient.send is one atomic step at the table; a store operation is a  *)
(* frame in calls that moves from one send to the next, and operations in  *)
(* flight interleave.  Two identical frames are one element of calls.      *)
(***************************************************************************)
\* PutCommand: the item replaces whatever the key held
dbPut(T, item) == (item.sessionId :> item) @@ T

\* an UpdateCommand that appends the last element of a list value to the stored
\* list ("set events = list_append(events, :e)") instead of replacing the list
dbUpdate_listAppend(T, sessionId, attribute, value) ==
    LET item == IF sessionId \in DOMAIN T THEN T[sessionId] ELSE [sessionId |-> sessionId]
        stored == IF attribute \in DOMAIN item THEN item[attribute] ELSE <<>>
    IN IF attribute = "userId" THEN (sessionId :> ((attribute :> value) @@ item)) @@ T
       ELSE (sessionId :> ((attribute :> Append(stored, value[Len(value)])) @@ item)) @@ T

\* UpdateCommand "set attribute = :v": creates the item when the key is absent
dbUpdate(T, sessionId, attribute, value) ==
    LET item == IF sessionId \in DOMAIN T THEN T[sessionId] ELSE [sessionId |-> sessionId]
    IN (sessionId :> ((attribute :> value) @@ item)) @@ T

\* the list attribute a read-modify-write operation rewrites, and its bound
dbAttribute(op) ==
    IF op = "addEvent" THEN "events"
    ELSE IF op = "addAdaptation" THEN "adaptations" ELSE "cognitiveStates"

dbBound(op) == IF op = "addEvent" THEN MAX_EVENTS ELSE MAX_COGNITIVE_STATES

\* session.<list>.push(x); if (length > bound) <list> = <list>.slice(-bound);
\* addAdaptation pushes and cuts nothing
dbPushed(op, list, x) ==
    LET pushed == Append(list, x)
    IN IF op # "addAdaptation" /\ Len(pushed) > dbBound(op)
       THEN slice(pushed, dbBound(op)) ELSE pushed

\* the frame of addEvent, updateCognitiveState or addAdaptation about to send
\* its GetCommand
dbFrame(op, sessionId, x) == [op |-> op, pc |-> "get", sessionId |-> sessionId, arg |-> x]

\* updateSessionUser(sessionId, userId) about to send its UpdateCommand
dbUserFrame(sessionId, userId) ==
    [op |-> "updateSessionUser", pc |-> "update", sessionId |-> sessionId, userId |-> userId]

\* POST /sessions/:sessionId/events: addEvent starts updateSessionUser without
\* awaiting it when the event carries a userId, then calls getSession
PostEvent(sessionId, event) ==
    /\ service = "data-service"
    /\ calls' = calls \cup {dbFrame("addEvent", sessionId, event)}
                      \cup (IF Has(event, "userId") /\ event.userId # null
                            THEN {dbUserFrame(sessionId, event.userId)} ELSE {})
    /\ nextId' = nextId + 1
    /\ UNCHANGED <<sessions, userProgress, now, res, loopLog, call, service, table, client>>

\* POST /sessions/:sessionId/cognitive: updateCognitiveState calls getSession
PostCognitive(sessionId, cognitiveState) ==
    /\ service = "data-service"
    /\ calls' = calls \cup {dbFrame("updateCognitiveState", sessionId, cognitiveState)}
    /\ UNCHANGED <<sessions, userProgress, now, nextId, res, loopLog, call, service, table, client>>

\* POST /sessions/:sessionId/adaptations: addAdaptation calls getSession
PostAdaptation(sessionId, adaptation) ==
    /\ service = "data-service"
    /\ calls' = calls \cup {dbFrame("addAdaptation", sessionId, adaptation)}
    /\ UNCHANGED <<sessions, userProgress, now, nextId, res, loopLog, call, service, table, client>>

\* getSession(sessionId): the GetCommand is answered.  With an Item the operation
\* pushes onto its copy; an Item without the list makes push throw, and the
\* handler ends with no response.  Without an Item getSession goes on to Put.
StoreGet(f) ==
    /\ f \in calls /\ f.pc = "get"
    /\ IF f.sessionId \in DOMAIN table
       THEN LET Item == table[f.sessionId]
            IN IF Has(Item, dbAttribute(f.op))
               THEN calls' = (calls \ {f}) \cup
                        {[op |-> f.op, pc |-> "update", sessionId |-> f.sessionId,
                          value |-> dbPushed(f.op, Item[dbAttribute(f.op)], f.arg)]}
               ELSE calls' = calls \ {f}
       ELSE calls' = (calls \ {f}) \cup {[f EXCEPT !.pc = "put"]}
    /\ UNCHANGED <<sessions, userProgress, now, nextId, res, loopLog, call, service, table, client>>

\* getSession(sessionId): the PutCommand of the new session is answered, and the
\* operation pushes onto the new session
StorePut(f) ==
    /\ f \in calls /\ f.pc = "put"
    /\ table' = dbPut(table, NewSession(f.sessionId, null, now))
    /\ calls' = (calls \ {f}) \cup
                    {[op |-> f.op, pc |-> "update", sessionId |-> f.sessionId,
                      value |-> dbPushed(f.op, <<>>, f.arg)]}
    /\ UNCHANGED <<sessions, userProgress, now, nextId, res, loopLog, call, service, client>>

\* the UpdateCommand of addEvent ("set events = :e"), of updateCognitiveState
\* ("set cognitiveStates = :cs"), of addAdaptation ("set adaptations = :a") or of
\* updateSessionUser ("set userId = :u") is answered; the first three answer
\* their request, the last was not awaited
StoreUpdate(f) ==
    /\ f \in calls /\ f.pc = "update"
    /\ calls' = calls \ {f}
    /\ IF f.op = "updateSessionUser"
       THEN /\ table' = dbUpdate(table, f.sessionId, "userId", f.userId)
            /\ UNCHANGED res
       ELSE /\ table' = dbUpdate(table, f.sessionId, dbAttribute(f.op), f.value)
            /\ res' = IF f.op = "addEvent"
                      THEN [status |-> 200, success |-> TRUE, count |-> Len(f.value)]
                      ELSE [status |-> 200, success |-> TRUE]
    /\ UNCHANGED <<sessions, userProgress, now, nextId, loopLog, call, service, client>>

(***************************************************************************)
(* Volume: a session that has already received many events, in the         *)
(* in-process server and in the data service.                              *)
(***************************************************************************)
PrefillCount == 99
PrefillTime == 2500
MaxVolumeIds == 2
MaxInFlight == 2

PlayBody == [sessionId |-> "s1", eventType |-> "AUDIO_PLAY", metadata |-> EmptyMap]

\* the events that n POST /ingest requests of PlayBody at time t store, in order
PrefilledEvents(n, t) == [i \in 1..n |-> ingestEvent(PlayBody, i, t)]

\* the session after those n requests: the loop of the j-th request inferred a
\* state from the window of the 20 latest events; windows of AUDIO_PLAY alone
\* are low load, for which nothing is recommended and no uuid is drawn
PrefilledSession(n, t) ==
    LET events == PrefilledEvents(n, t)
        states == [j \in 1..n |->
                      inferCognitiveState(
                          [events |-> slice(SubSeq(events, 1, j), EVENT_WINDOW)], "s1", t)]
    IN [NewSession("s1", null, t) EXCEPT
            !.events = slice(events, MAX_EVENTS),
            !.cognitiveStates = slice(states, MAX_COGNITIVE_STATES)]

\* the store after a burst of PrefillCount requests
Prefilled == ("s1" :> PrefilledSession(PrefillCount, PrefillTime))

\* what the loop of the last of them logged
PrefilledLog ==
    processEvent(Prefilled, PrefilledEvents(PrefillCount, PrefillTime)[PrefillCount],
                 PrefillCount + 1, PrefillTime).log

VolumeBatch ==
    [sessionId |-> "s1",
     events |-> << [eventType |-> "AUDIO_REPLAY", timestamp |-> 1],
                   [eventType |-> "NAVIGATION_REVERSAL", metadata |-> EmptyMap] >>]

\* the events posted to the data service: for s1 with and without a user, and
\* for s2, which the table does not hold
StoreEvents ==
    { [sessionId |-> "s1", eventType |-> "AUDIO_PLAY", timestamp |-> PrefillTime,
       metadata |-> EmptyMap] @@ user :
          user \in {EmptyMap, [userId |-> "u1"], [userId |-> "u2"]} }
    \cup { [sessionId |-> "s2", eventType |-> "AUDIO_PLAY", timestamp |-> PrefillTime,
            metadata |-> EmptyMap] }

InitVolume ==
    /\ now = PrefillTime
    /\ nextId = PrefillCount + 1
    /\ userProgress = EmptyMap
    /\ res = NoResponse
    /\ EngineIdle
    /\ ClientClosed
    /\ calls = {}
    /\ \/ /\ service = "server"
          /\ sessions = Prefilled
          /\ loopLog = PrefilledLog
          /\ table = EmptyMap
       \/ /\ service = "data-service"
          /\ sessions = EmptyMap
          /\ loopLog = NoLoop
          /\ table = Prefilled

\* the clock is read by the server alone: the data service stores what it is sent
VolumeTick ==
    /\ service = "server"
    /\ \E step \in TickSteps : Advance(step, PrefillTime + MaxTicks * step)

VolumeIngest == nextId <= PrefillCount + MaxVolumeIds /\ Ingest(PlayBody)

VolumeIngestBatch == nextId <= PrefillCount + MaxVolumeIds /\ IngestBatch(VolumeBatch)

VolumePostEvent ==
    \E body \in StoreEvents :
        /\ nextId <= PrefillCount + MaxVolumeIds
        /\ Cardinality(calls) < MaxInFlight
        /\ PostEvent(body.sessionId, [eventId |-> nextId] @@ body)

\* the cognitive state posted: the one inferred for the latest window of s1
VolumePostCognitive ==
    /\ Cardinality(calls) < MaxInFlight
    /\ "s1" \in DOMAIN table
    /\ Has(table["s1"], "events")
    /\ PostCognitive("s1", inferCognitiveState(
                               [events |-> slice(table["s1"].events, EVENT_WINDOW)],
                               "s1", PrefillTime))

NextVolume ==
    \/ VolumeTick
    \/ VolumeIngest
    \/ VolumeIngestBatch
    \/ VolumePostEvent
    \/ VolumePostCognitive
    \/ \E f \in calls : StoreGet(f)
    \/ \E f \in calls : StorePut(f)
    \/ \E f \in calls : StoreUpdate(f)

SpecVolume == InitVolume /\ [][NextVolume]_vars

(***************************************************************************)
(* C1.  In every reachable state, after any sequence and any interleaving  *)
(* of single ingests, batch ingests and loop executions, every session's   *)
(* event log holds at most 100 entries and its cognitive-state log holds   *)
(* at most 20 entries (in the in-memory store and in the table alike).     *)
(***************************************************************************)
C1_LogsBounded ==
    /\ \A sessionId \in DOMAIN sessions :
          /\ Len(sessions[sessionId].events) <= 100
          /\ Len(sessions[sessionId].cognitiveStates) <= 20
    /\ \A sessionId \in DOMAIN table :
          /\ Has(table[sessionId], "events") => Len(table[sessionId].events) <= 100
          /\ Has(table[sessionId], "cognitiveStates") =>
                Len(table[sessionId].cognitiveStates) <= 20

\* both logs of s1 are full, events were evicted, and a request was handled
\* after the clock had advanced
C1_Witness ==
    /\ "s1" \in DOMAIN sessions
    /\ LET session == sessions["s1"]
       IN /\ Len(session.events) = 100
          /\ session.events[1].eventId >= 3
          /\ session.events[100].timestamp > PrefillTime
          /\ Len(session.cognitiveStates) = 20
          /\ session.cognitiveStates[20].timestamp > PrefillTime

(***************************************************************************)
(* C2.  Eviction is FIFO by timestamp: whenever a handler appends to a     *)
(* session's event log (or cognitive-state log), every entry it removes    *)
(* has a timestamp no later than that of every entry it leaves, the newest *)
(* entry is kept, and the entries that remain keep their relative order;   *)
(* for single ingest and for batch ingest alike.                           *)
(***************************************************************************)
C2_Events(old, new) ==
    LET evicted == {i \in 1..Len(old) :
                       \A j \in 1..Len(new) : new[j].eventId # old[i].eventId}
        kept == Len(old) - Cardinality(evicted)
    IN new # old =>
          /\ \A i \in evicted : \A j \in 1..Len(new) : old[i].timestamp <= new[j].timestamp
          /\ \A i \in 1..Len(old) : new[Len(new)].eventId # old[i].eventId
          /\ evicted = 1..Cardinality(evicted)
          /\ SubSeq(new, 1, kept) = SubSeq(old, Cardinality(evicted) + 1, Len(old))

C2_CognitiveStates(old, new) ==
    (new # old /\ Len(old) = 20) =>
        /\ SubSeq(new, 1, 19) = Tail(old)
        /\ \A j \in 1..Len(new) : old[1].timestamp <= new[j].timestamp

C2_Step ==
    \A sessionId \in DOMAIN sessions :
        /\ C2_Events(sessions[sessionId].events, sessions'[sessionId].events)
        /\ C2_CognitiveStates(sessions[sessionId].cognitiveStates,
                              sessions'[sessionId].cognitiveStates)

C2_FifoByTimestamp == [][C2_Step]_vars

(***************************************************************************)
(* C3.  Once a session's userId is bound to a value u, no later operation  *)
(* on that session (an event carrying another userId included, under any   *)
(* interleaving) changes it to a value different from u.                   *)
(***************************************************************************)
C3_Step ==
    /\ \A sessionId \in DOMAIN sessions :
          sessions[sessionId].userId # null =>
              sessions'[sessionId].userId = sessions[sessionId].userId
    /\ \A sessionId \in DOMAIN table :
          (Has(table[sessionId], "userId") /\ table[sessionId].userId # null) =>
              table'[sessionId].userId = table[sessionId].userId

C3_UserIdNeverOverwritten == [][C3_Step]_vars

(***************************************************************************)
(* Vocabulary of the claims on ingestion.                                  *)
(***************************************************************************)
\* the event log of sessionId in the store S
EventsOf(S, sessionId) ==
    IF sessionId \in DOMAIN S THEN S[sessionId].events ELSE <<>>

\* the events this step appended to sessionId's log (no entry being evicted)
AppendedEvents(sessionId) ==
    SubSeq(EventsOf(sessions', sessionId),
           Len(EventsOf(sessions, sessionId)) + 1,
           Len(EventsOf(sessions', sessionId)))

\* this step stored nothing in any event log
NothingStored ==
    \A sessionId \in DOMAIN sessions' :
        EventsOf(sessions', sessionId) = EventsOf(sessions, sessionId)

(***************************************************************************)
(* C11.  ingest reports success, with the new eventId, exactly when the    *)
(* event was appended to the session's event log: a request with a         *)
(* sessionId and an eventType is acknowledged with the eventId of the      *)
(* event it appended, with or without metadata, and a request that is      *)
(* answered with a failure leaves no event stored.                         *)
(***************************************************************************)
C11_Step ==
    \A body \in IngestBodies :
        Ingest(body) =>
            LET acknowledged == res'.status = 200 /\ Has(res', "eventId")
            IN /\ (Has(body, "sessionId") /\ Has(body, "eventType")) => acknowledged
               /\ acknowledged =>
                      LET appended == AppendedEvents(body.sessionId)
                      IN Len(appended) = 1 /\ appended[1].eventId = res'.eventId
               /\ ~acknowledged => NothingStored

C11_AckIffStored == [][C11_Step]_vars

(***************************************************************************)
(* C13.  In every reachable state, a session's currentTime, playbackSpeed  *)
(* and currentSection each equal the value carried by the latest accepted  *)
(* event whose metadata contained currentTime, speed, sectionId            *)
(* respectively, whether the event arrived by single ingest or in a batch; *)
(* a field no event carried keeps its default.                             *)
(***************************************************************************)
\* the value of key in the metadata of the latest event that carries it
LatestCarried(events, key, default) ==
    LET carriers == {i \in 1..Len(events) : Has(events[i].metadata, key)}
    IN IF carriers = {} THEN default
       ELSE events[CHOOSE i \in carriers : \A j \in carriers : j <= i].metadata[key]

C13_ContextReflectsLatest ==
    \A sessionId \in DOMAIN sessions :
        LET session == sessions[sessionId]
        IN /\ session.currentTime = LatestCarried(session.events, "currentTime", 0)
           /\ session.playbackSpeed = LatestCarried(session.events, "speed", 100)
           /\ session.currentSection = LatestCarried(session.events, "sectionId", "intro")

(***************************************************************************)
(* C15.  Every stored event's timestamp is the server's clock value at     *)
(* ingestion: each event a request appends, by single ingest or by batch,  *)
(* carries the time of the request, whatever timestamp the client sent.    *)
(***************************************************************************)
C15_Step ==
    \A sessionId \in DOMAIN sessions' :
        LET appended == AppendedEvents(sessionId)
        IN \A i \in 1..Len(appended) : appended[i].timestamp = now'

C15_ServerTimestamp == [][C15_Step]_vars

(***************************************************************************)
(* services/event-service: the orchestrator of the microservices.  It      *)
(* stores each event in the data service and runs the loop of each event   *)
(* as a chain of HTTP calls that nobody awaits, so the loops of several    *)
(* events are in flight together.  The data service answers one request at *)
(* a time from its store (table); a frame of calls is a loop in flight.    *)
(***************************************************************************)
\* metadata && (metadata.currentTime || metadata.speed || metadata.sectionId)
svcCarriesContext(body) ==
    /\ Has(body, "metadata")
    /\ \/ Has(body.metadata, "currentTime") /\ body.metadata.currentTime # 0
       \/ Has(body.metadata, "speed") /\ body.metadata.speed # 0
       \/ Has(body.metadata, "sectionId") /\ body.metadata.sectionId # ""

\* the event POST /batch of the event service builds from the element eventData
svcBatchEvent(sessionId, eventData, eventId, t) ==
    [k \in {"eventId", "sessionId", "timestamp", "metadata"}
            \cup (DOMAIN eventData \cap {"eventType"}) |->
        CASE k = "eventId" -> eventId
          [] k = "sessionId" -> sessionId
          [] k = "eventType" -> eventData.eventType
          [] k = "timestamp" ->
                IF Has(eventData, "metadata") /\ Has(eventData.metadata, "timestamp")
                   /\ eventData.metadata.timestamp # 0
                THEN eventData.metadata.timestamp ELSE t
          [] k = "metadata" ->
                IF Has(eventData, "metadata") THEN eventData.metadata ELSE EmptyMap]

\* processEvent(event) was called and has not sent its first request
svcLoop(event) == [op |-> "processEvent", pc |-> "window", event |-> event]

\* POST /ingest of the event service.  A request to the data service may fail
\* (failure names it): the catch answers 500 and no loop is started
SvcIngest(body) ==
    /\ service = "event-service"
    /\ UNCHANGED <<sessions, now, loopLog, call, service, client>>
    /\ IF ~Has(body, "sessionId") \/ ~Has(body, "eventType")
       THEN /\ res' = [status |-> 400, error |-> "Missing sessionId or eventType"]
            /\ UNCHANGED <<userProgress, nextId, table, calls>>
       ELSE \E failure \in {"none", "events", "context"} :
              LET sessionId == body.sessionId
                  event == ingestEvent(body, nextId, now)
                  T1 == addEvent(table, sessionId, event, now)
                  context == IF svcCarriesContext(body)
                             THEN ingestContext(body.metadata) ELSE EmptyMap
                  T2 == IF svcCarriesContext(body)
                        THEN updateSessionContext(T1, sessionId, context, now) ELSE T1
              IN /\ nextId' = nextId + 1
                 /\ CASE failure = "events" ->
                           /\ res' = [status |-> 500, error |-> "Ingestion failed"]
                           /\ UNCHANGED <<userProgress, table, calls>>
                      [] failure = "context" ->
                           /\ svcCarriesContext(body)
                           /\ table' = T1
                           /\ res' = [status |-> 500, error |-> "Ingestion failed"]
                           /\ UNCHANGED <<userProgress, calls>>
                      [] failure = "none" ->
                           /\ table' = T2
                           /\ userProgress' =
                                 IF svcCarriesContext(body)
                                 THEN contextProgress(userProgress, T2, sessionId, context, now)
                                 ELSE userProgress
                           /\ calls' = calls \cup {svcLoop(event)}
                           /\ res' = [status |-> 200, success |-> TRUE,
                                      eventId |-> event.eventId]

\* the events of the batch stored before the request for the failAt-th fails
\* (all of them when failAt exceeds their number)
svcStored(sessionId, events, failAt, firstId, t) ==
    [i \in 1..Min(Len(events), failAt - 1) |->
        svcBatchEvent(sessionId, events[i], firstId + i - 1, t)]

RECURSIVE svcAddEvents(_, _, _, _)
svcAddEvents(T, sessionId, events, t) ==
    IF events = <<>> THEN T
    ELSE svcAddEvents(addEvent(T, sessionId, events[1], t), sessionId, Tail(events), t)

\* POST /batch of the event service: each event is stored and its loop started
\* before the next event is built
SvcBatch(body) ==
    /\ service = "event-service"
    /\ UNCHANGED <<sessions, userProgress, now, loopLog, call, service, client>>
    /\ IF ~Has(body, "sessionId") \/ ~Has(body, "events")
       THEN /\ res' = [status |-> 400, error |-> "Missing sessionId or events array"]
            /\ UNCHANGED <<nextId, table, calls>>
       ELSE \E failAt \in 1..(Len(body.events) + 1) :
              LET n == Len(body.events)
                  stored == svcStored(body.sessionId, body.events, failAt, nextId, now)
              IN /\ table' = svcAddEvents(table, body.sessionId, stored, now)
                 /\ calls' = calls \cup {svcLoop(stored[i]) : i \in 1..Len(stored)}
                 /\ nextId' = nextId + Min(n, failAt)
                 /\ res' = IF failAt <= n
                           THEN [status |-> 500, error |-> "Batch processing failed"]
                           ELSE [status |-> 200, success |-> TRUE, count |-> n]

\* the frame f with its pc at stage and the fields of more added
svcAt(f, stage, more) == more @@ [f EXCEPT !.pc = stage]

\* what a loop logs when it ends
svcLog(f, outcome) ==
    [eventId |-> f.event.eventId, sessionId |-> f.event.sessionId,
     stage |-> f.pc, outcome |-> outcome]

\* 1. GET /sessions/:sessionId/events?limit=20
SvcWindow(f) ==
    /\ f \in calls /\ f.op = "processEvent" /\ f.pc = "window"
    /\ table' = getSession(table, f.event.sessionId, null, now)
    /\ calls' = (calls \ {f}) \cup
          {svcAt(f, "analyze",
                 [recentEvents |->
                     getRecentEvents(table, f.event.sessionId, EVENT_WINDOW, now)])}
    /\ UNCHANGED <<sessions, userProgress, now, nextId, res, loopLog, call, service, client>>

\* 2. POST /analyze: the cognitive service answers 500 when the engine throws,
\* which the orchestrator's catch logs
SvcAnalyze(f) ==
    /\ f \in calls /\ f.op = "processEvent" /\ f.pc = "analyze"
    /\ IF throwsTypeError(f.recentEvents)
       THEN /\ calls' = calls \ {f}
            /\ loopLog' = svcLog(f, "Error processing event")
       ELSE /\ calls' = (calls \ {f}) \cup
                  {svcAt(f, "cognitive",
                         [cognitiveState |->
                             inferCognitiveState([events |-> f.recentEvents],
                                                 f.event.sessionId, now)])}
            /\ UNCHANGED loopLog
    /\ UNCHANGED <<sessions, userProgress, now, nextId, res, call, service, table, client>>

\* 3. POST /sessions/:sessionId/cognitive
SvcCognitive(f) ==
    /\ f \in calls /\ f.op = "processEvent" /\ f.pc = "cognitive"
    /\ table' = updateCognitiveState(table, f.event.sessionId, f.cognitiveState, now)
    /\ calls' = (calls \ {f}) \cup {svcAt(f, "decide", EmptyMap)}
    /\ UNCHANGED <<sessions, userProgress, now, nextId, res, loopLog, call, service, client>>

\* a decision that executes the recommendations for a state without patterns
decide_ignoringPatterns(cognitiveState, firstId, t) ==
    executeAdaptations([cognitiveState EXCEPT !.patterns = <<>>],
                       recommendAdaptations(cognitiveState), EmptyMap, firstId, t)

\* POST /decide of the adaptation service, sent { cognitiveState } alone: the
\* recommendations are executed with the context {}
decide(cognitiveState, firstId, t) ==
    executeAdaptations(cognitiveState, recommendAdaptations(cognitiveState),
                       EmptyMap, firstId, t)

\* 4. POST /decide
SvcDecide(f) ==
    /\ f \in calls /\ f.op = "processEvent" /\ f.pc = "decide"
    /\ LET adaptations == decide(f.cognitiveState, nextId, now)
       IN /\ calls' = (calls \ {f}) \cup
                {svcAt(f, "persist", [adaptations |-> adaptations])}
          /\ nextId' = nextId + Len(adaptations)
    /\ UNCHANGED <<sessions, userProgress, now, res, loopLog, call, service, table, client>>

\* 5. POST /sessions/:sessionId/adaptations for the next adaptation, or the end
\* of the loop when none is left
SvcPersist(f) ==
    /\ f \in calls /\ f.op = "processEvent" /\ f.pc = "persist"
    /\ IF f.adaptations = <<>>
       THEN /\ calls' = calls \ {f}
            /\ loopLog' = svcLog(f, "Done")
            /\ UNCHANGED table
       ELSE /\ table' = addAdaptation(table, f.event.sessionId, Head(f.adaptations), now)
            /\ calls' = (calls \ {f}) \cup {[f EXCEPT !.adaptations = Tail(f.adaptations)]}
            /\ UNCHANGED loopLog
    /\ UNCHANGED <<sessions, userProgress, now, nextId, res, call, service, client>>

\* the request a loop is about to send fails: the catch of processEvent logs
\* the error and the loop ends
SvcFail(f) ==
    /\ f \in calls /\ f.op = "processEvent"
    /\ ~(f.pc = "persist" /\ f.adaptations = <<>>)
    /\ calls' = calls \ {f}
    /\ loopLog' = svcLog(f, "Error processing event")
    /\ UNCHANGED <<sessions, userProgress, now, nextId, res, call, service, table, client>>

(***************************************************************************)
(* The reads of the delivery surface.                                      *)
(***************************************************************************)
ACTIVE_HISTORY == 10
ACTIVE_DEFAULT == 60000
DATA_ACTIVE_HISTORY == 5

\* a.parameters.duration || 60000
durationOf(a) ==
    IF Has(a.parameters, "duration") /\ a.parameters.duration # 0
    THEN a.parameters.duration ELSE ACTIVE_DEFAULT

\* GET /api/adaptations/:sessionId/active of the in-process server
GetActive(sessionId) ==
    /\ service = "server"
    /\ sessions' = getSession(sessions, sessionId, null, now)
    /\ LET adaptations == getRecentAdaptations(sessions, sessionId, ACTIVE_HISTORY, now)
           activeAdaptations ==
               SelectSeq(adaptations, LAMBDA a : now - a.timestamp < durationOf(a))
       IN res' = [status |-> 200, sessionId |-> sessionId,
                  activeAdaptations |-> activeAdaptations,
                  count |-> Len(activeAdaptations)]
    /\ UNCHANGED <<userProgress, now, nextId, loopLog, call, service, table, calls, client>>

\* GET /sessions/:sessionId/adaptations/active of the data service
DataGetActive(sessionId) ==
    /\ service = "event-service"
    /\ table' = getSession(table, sessionId, null, now)
    /\ res' = [status |-> 200,
               activeAdaptations |->
                   getRecentAdaptations(table, sessionId, DATA_ACTIVE_HISTORY, now)]
    /\ UNCHANGED <<sessions, userProgress, now, nextId, loopLog, call, service, calls, client>>

(***************************************************************************)
(* The loop under failures: the in-process server and the microservices    *)
(* receive well-formed events, an event whose eventType is a number, and   *)
(* batches; requests between the services may fail; a minute may pass.     *)
(***************************************************************************)
MaxLoopEvents == 2
MaxLoopIds == 3
MaxLoopTicks == 1
LoopSteps == {60000}

LoopBodies ==
    { [sessionId |-> "s1", eventType |-> "AUDIO_REPLAY", metadata |-> [currentTime |-> 100]],
      [sessionId |-> "s1", eventType |-> "#5", metadata |-> EmptyMap],
      [sessionId |-> "s1", eventType |-> "AUDIO_PLAY"],
      [eventType |-> "AUDIO_PLAY", metadata |-> EmptyMap] }

LoopBatches ==
    { [sessionId |-> "s1",
       events |-> << [eventType |-> "AUDIO_REPLAY", metadata |-> [timestamp |-> 1]],
                     [eventType |-> "AUDIO_PAUSE"] >>],
      [sessionId |-> "s1", events |-> <<>>],
      [sessionId |-> "s1"] }

InitLoop ==
    /\ now = 0
    /\ service \in {"server", "event-service"}
    /\ ServerStarted
    /\ EngineIdle
    /\ DataServiceIdle
    /\ ClientClosed

\* the number of events the deployment followed holds for sessionId
LoopStored(sessionId) ==
    IF service = "server" THEN StoredEvents(sessionId)
    ELSE IF sessionId \in DOMAIN table THEN Len(table[sessionId].events) ELSE 0

\* another request is sent
LoopOpen == LoopStored("s1") < MaxLoopEvents /\ nextId <= MaxLoopIds

\* a batch is the first request that stores events
LoopFresh == LoopStored("s1") = 0 /\ nextId <= MaxLoopIds

\* a minute passes; the requests of a loop are answered well within it
LoopTick == calls = {} /\ \E step \in LoopSteps : Advance(step, MaxLoopTicks * step)

NextLoop ==
    \/ LoopTick
    \/ \E body \in LoopBodies : LoopOpen /\ Ingest(body)
    \/ \E body \in LoopBatches : LoopFresh /\ IngestBatch(body)
    \/ \E body \in LoopBodies : LoopOpen /\ SvcIngest(body)
    \/ \E body \in LoopBatches : LoopFresh /\ SvcBatch(body)
    \/ \E f \in calls : SvcWindow(f)
    \/ \E f \in calls : SvcAnalyze(f)
    \/ \E f \in calls : SvcCognitive(f)
    \/ \E f \in calls : SvcDecide(f)
    \/ \E f \in calls : SvcPersist(f)
    \/ \E f \in calls : SvcFail(f)
    \/ GetActive("s1")
    \/ DataGetActive("s1")

SpecLoop == InitLoop /\ [][NextLoop]_vars

(***************************************************************************)
(* Vocabulary of the claims on the loop.                                   *)
(***************************************************************************)
\* the events this step appended to sessionId's log in the data service
TableAppendedEvents(sessionId) ==
    SubSeq(EventsOf(table', sessionId),
           Len(EventsOf(table, sessionId)) + 1,
           Len(EventsOf(table', sessionId)))

\* the loops of the orchestrator this step started
Started == {f \in calls' \ calls : f.pc = "window"}

\* the loop f of the orchestrator ended with a failure in this step
Failed(f) == SvcFail(f) \/ (SvcAnalyze(f) /\ throwsTypeError(f.recentEvents))

\* the ids of the events of a window
Ids(events) == {events[i].eventId : i \in 1..Len(events)}

\* the cognitive states of sessionId in the store S
CognitiveStatesOf(S, sessionId) ==
    IF sessionId \in DOMAIN S THEN S[sessionId].cognitiveStates ELSE <<>>

(***************************************************************************)
(* C12.  ingestBatch appends the events of the batch to the session's log  *)
(* in input order and, for a non-empty batch, starts exactly one loop      *)
(* execution, for the last event, after all events are stored; an empty    *)
(* batch starts none, and no batch starts one execution per event.         *)
(***************************************************************************)
C12_InProcess ==
    \A body \in LoopBatches :
        (IngestBatch(body) /\ res'.status = 200) =>
            LET n == Len(body.events)
                appended == AppendedEvents(body.sessionId)
                inferred == Len(CognitiveStatesOf(sessions', body.sessionId))
                            - Len(CognitiveStatesOf(sessions, body.sessionId))
            IN /\ Len(appended) = n
               /\ \A i \in 1..n :
                     /\ appended[i].eventId = nextId + i - 1
                     /\ Has(body.events[i], "eventType") =>
                            appended[i].eventType = body.events[i].eventType
               /\ IF n > 0
                  THEN LoopRan /\ loopLog'.eventId = appended[n].eventId /\ inferred = 1
                  ELSE ~LoopRan /\ inferred = 0

C12_EventService ==
    \A body \in LoopBatches :
        (SvcBatch(body) /\ res'.status = 200) =>
            LET n == Len(body.events)
                appended == TableAppendedEvents(body.sessionId)
            IN /\ Len(appended) = n
               /\ \A i \in 1..n :
                     /\ appended[i].eventId = nextId + i - 1
                     /\ Has(body.events[i], "eventType") =>
                            appended[i].eventType = body.events[i].eventType
               /\ Started = IF n > 0 THEN {svcLoop(appended[n])} ELSE {}

C12_OnePassPerBatch == [][C12_InProcess /\ C12_EventService]_vars

(***************************************************************************)
(* C14.  The read of the active adaptations returns an adaptation only     *)
(* while now - timestamp is less than its duration window                  *)
(* (parameters.duration, or the default when the parameters carry none):   *)
(* no adaptation whose window has elapsed is returned as active.           *)
(***************************************************************************)
C14_Step ==
    (GetActive("s1") \/ DataGetActive("s1")) =>
        \A i \in 1..Len(res'.activeAdaptations) :
            LET a == res'.activeAdaptations[i]
            IN now - a.timestamp < durationOf(a)

C14_OnlyActiveReturned == [][C14_Step]_vars

(***************************************************************************)
(* C16.  The acknowledgment of an ingestion is independent of the loop:    *)
(* a request whose event was stored is answered with success, and a loop   *)
(* execution that fails (at the window read, the inference, the storing of *)
(* the cognitive state, the decision or the storing of adaptations)        *)
(* changes no answer already given, removes no stored event and is logged. *)
(***************************************************************************)
C16_AckOnceStored ==
    /\ \A body \in LoopBodies :
          (Ingest(body) /\ ~NothingStored) =>
              /\ res'.status = 200
              /\ res'.eventId = AppendedEvents(body.sessionId)[1].eventId
    /\ \A body \in LoopBodies :
          (SvcIngest(body) /\ Has(body, "sessionId")
             /\ TableAppendedEvents(body.sessionId) # <<>>) =>
              /\ res'.status = 200
              /\ res'.eventId = TableAppendedEvents(body.sessionId)[1].eventId

C16_LoopFailureHarmless ==
    /\ (LoopRan /\ loopLog'.outcome = "Processing error") =>
          /\ res'.status = 200
          /\ loopLog'.eventId \in Ids(EventsOf(sessions', loopLog'.sessionId))
    /\ \A f \in calls :
          Failed(f) =>
              /\ res' = res
              /\ \A sessionId \in DOMAIN table :
                    EventsOf(table', sessionId) = EventsOf(table, sessionId)
              /\ loopLog'.eventId = f.event.eventId
              /\ service' = service

C16_AckIndependentOfLoop == [][C16_AckOnceStored /\ C16_LoopFailureHarmless]_vars

\* the second conjunct alone: what a failing loop execution leaves alone
C16_LoopFailureAlone == [][C16_LoopFailureHarmless]_vars

(***************************************************************************)
(* C19.  Within one loop execution the stages run in the order Ingested,   *)
(* Windowed, Inferred, Decided, Persisted, Done: the window is read after  *)
(* the triggering event is stored (and contains it), the cognitive state   *)
(* inferred from that window is appended before any adaptation of the      *)
(* execution, and every adaptation the execution appends is derived from   *)
(* the cognitive state inferred in the same execution.                     *)
(***************************************************************************)
StageOrder == <<"window", "analyze", "cognitive", "decide", "persist">>

StageIndex(pc) == CHOOSE i \in 1..Len(StageOrder) : StageOrder[i] = pc

\* the triggeredBy of the adaptations executed for a cognitive state
TriggerOf(cognitiveState) ==
    IF Len(cognitiveState.patterns) > 0 THEN cognitiveState.patterns
    ELSE <<"behavioral-signals">>

\* a is an adaptation of sessionId derived from cognitiveState by recommend
DerivedFrom(a, cognitiveState, sessionId, strategies) ==
    /\ a.sessionId = sessionId
    /\ a.triggeredBy = TriggerOf(cognitiveState)
    /\ includes(strategies, a.strategy)

\* the inference apart from the time it was made at
SameInference(cs1, cs2) ==
    /\ cs1.sessionId = cs2.sessionId
    /\ cs1.cognitiveLoad = cs2.cognitiveLoad
    /\ cs1.patterns = cs2.patterns
    /\ cs1.behaviorSummary = cs2.behaviorSummary

C19_InProcess ==
    (service = "server" /\ LoopRan /\ loopLog'.outcome # "Processing error") =>
        LET sessionId == loopLog'.sessionId
            window == slice(EventsOf(sessions', sessionId), EVENT_WINDOW)
            states == CognitiveStatesOf(sessions', sessionId)
            inferred == states[Len(states)]
            appended == Appended(sessionId)
        IN /\ loopLog'.eventId \in Ids(window)
           /\ Len(states) = Len(CognitiveStatesOf(sessions, sessionId)) + 1
           /\ inferred = inferCognitiveState([events |-> window], sessionId, now)
           /\ \A i \in 1..Len(appended) :
                 /\ appended[i].timestamp = inferred.timestamp
                 /\ DerivedFrom(appended[i], inferred, sessionId,
                                cognitiveEngine_recommendAdaptations(inferred))

\* what each loop in flight has done when it stands at its stage
C19_Stages ==
    \A f \in calls' :
        f.op = "processEvent" =>
            LET sessionId == f.event.sessionId
                i == StageIndex(f.pc)
            IN /\ f.event.eventId \in Ids(EventsOf(table', sessionId))
               /\ Has(f, "recentEvents") = (i >= 2)
               /\ Has(f, "cognitiveState") = (i >= 3)
               /\ Has(f, "adaptations") = (i >= 5)
               /\ i >= 2 => f.event.eventId \in Ids(f.recentEvents)
               /\ i >= 3 =>
                     SameInference(f.cognitiveState,
                                   inferCognitiveState([events |-> f.recentEvents],
                                                       sessionId, now))
               /\ i >= 4 =>
                     \E k \in 1..Len(CognitiveStatesOf(table', sessionId)) :
                         table'[sessionId].cognitiveStates[k] = f.cognitiveState
               /\ i >= 5 =>
                     \A k \in 1..Len(f.adaptations) :
                         DerivedFrom(f.adaptations[k], f.cognitiveState, sessionId,
                                     recommendAdaptations(f.cognitiveState))

\* a loop in flight stays at its stage or moves to the next one; an adaptation
\* is appended only by a loop at its last stage, which stored its state before
C19_Order ==
    /\ \A f \in calls : \A g \in calls' :
          (f.op = "processEvent" /\ g.op = "processEvent" /\ g.event = f.event) =>
              StageIndex(g.pc) \in {StageIndex(f.pc), StageIndex(f.pc) + 1}
    /\ \A sessionId \in DOMAIN table' :
          LET before == AdaptationsOf(table, sessionId)
              after == table'[sessionId].adaptations
          IN \A k \in (Len(before) + 1)..Len(after) :
                \E f \in calls :
                    /\ f.op = "processEvent" /\ f.pc = "persist"
                    /\ f.adaptations # <<>> /\ after[k] = Head(f.adaptations)
                    /\ DerivedFrom(after[k], f.cognitiveState, sessionId,
                                   recommendAdaptations(f.cognitiveState))

C19_StagesInOrder == [][C19_InProcess /\ C19_Stages /\ C19_Order]_vars

\* a loop of the orchestrator went through every stage and stored an adaptation
\* derived from the state it had stored
C19_Witness ==
    /\ service = "event-service"
    /\ Has(loopLog, "outcome") /\ loopLog.outcome = "Done"
    /\ "s1" \in DOMAIN table
    /\ \E k \in 1..Len(table["s1"].adaptations) :
          \E j \in 1..Len(table["s1"].cognitiveStates) :
              /\ table["s1"].cognitiveStates[j].patterns # <<>>
              /\ table["s1"].adaptations[k].triggeredBy =
                     table["s1"].cognitiveStates[j].patterns

(***************************************************************************)
(* C20.  A failed loop execution is not retried: a loop execution is       *)
(* started only for the event a request has just stored.  The next event   *)
(* ingested for the session starts a new execution, and the window of that *)
(* execution contains the event whose loop failed (fewer than 20 events    *)
(* having been ingested in between).                                       *)
(***************************************************************************)
\* the log shows that the loop of an event of sessionId failed
FailureLogged(sessionId) ==
    /\ Has(loopLog, "outcome")
    /\ loopLog.outcome \in {"Processing error", "Error processing event"}
    /\ loopLog.sessionId = sessionId

C20_NoRetry ==
    /\ (service = "server" /\ LoopRan) => loopLog'.eventId >= nextId
    /\ \A f \in Started : f.event.eventId >= nextId

C20_NextLoopSeesFailed ==
    /\ \A body \in LoopBodies :
          (Ingest(body) /\ res'.status = 200) =>
              /\ LoopRan /\ loopLog'.eventId = res'.eventId
              /\ FailureLogged(body.sessionId) =>
                     loopLog.eventId \in
                         Ids(slice(EventsOf(sessions', body.sessionId), EVENT_WINDOW))
    /\ \A body \in LoopBodies :
          (SvcIngest(body) /\ res'.status = 200) =>
              \E f \in Started : f.event.eventId = res'.eventId
    /\ \A f \in calls :
          (SvcWindow(f) /\ FailureLogged(f.event.sessionId)
             /\ loopLog.eventId < f.event.eventId) =>
              \E g \in calls' :
                  g.event = f.event /\ loopLog.eventId \in Ids(g.recentEvents)

Reset(before, after) ==
    \E list \in {"events", "cognitiveStates", "adaptations"} :
        /\ Has(before, list) /\ before[list] # <<>>
        /\ ~Has(after, list) \/ after[list] = <<>>

C18_Step ==
    /\ \A sessionId \in DOMAIN sessions :
          /\ sessionId \in DOMAIN sessions'
          /\ ~Reset(sessions[sessionId], sessions'[sessionId])
    /\ \A sessionId \in DOMAIN table :
          /\ sessionId \in DOMAIN table'
          /\ ~Reset(table[sessionId], table'[sessionId])

C18_SessionCreatedOnce == [][C18_Step]_vars

(***************************************************************************)
(* updateSessionContext of the DynamoDB store, behind POST                 *)
(* /sessions/:sessionId/context of the data service: an UpdateCommand of   *)
(* the fields the context carries, then getSession, then the PutCommand of *)
(* saveUserProgress when the session is bound to a user.                   *)
(***************************************************************************)
\* updateSessionContext(sessionId, context) about to send its first command
dbContextFrame(sessionId, context) ==
    [op |-> "updateSessionContext",
     pc |-> IF DOMAIN context = {} THEN "contextGet" ELSE "contextUpdate",
     sessionId |-> sessionId, arg |-> context]

\* UpdateCommand "set currentTime = :t, playbackSpeed = :s, currentSection = :sec"
dbUpdateContext(T, sessionId, context) ==
    LET item == IF sessionId \in DOMAIN T THEN T[sessionId] ELSE [sessionId |-> sessionId]
    IN (sessionId :> (context @@ item)) @@ T

\* saveUserProgress(userId, "book-default", sectionId, progressTime): the Item put
dbSaveUserProgress(P, userId, context, t) ==
    (<<userId, "book-default">> :>
        ([userId |-> userId, bookId |-> "book-default",
          progress |-> context.currentSection, lastUpdated |-> t]
         @@ [k \in DOMAIN context \cap {"currentTime"} |-> context[k]])) @@ P

\* session.userId && context.currentSection
dbPropagates(session, context) ==
    /\ Has(session, "userId") /\ session.userId # null
    /\ Has(context, "currentSection") /\ context.currentSection # ""

\* POST /sessions/:sessionId/context
PostContext(sessionId, context) ==
    /\ service = "data-service"
    /\ calls' = calls \cup {dbContextFrame(sessionId, context)}
    /\ UNCHANGED <<sessions, userProgress, now, nextId, res, loopLog, call, service, table, client>>

\* the UpdateCommand of the context is answered
ContextUpdate(f) ==
    /\ f \in calls /\ f.pc = "contextUpdate"
    /\ table' = dbUpdateContext(table, f.sessionId, f.arg)
    /\ calls' = (calls \ {f}) \cup {[f EXCEPT !.pc = "contextGet"]}
    /\ UNCHANGED <<sessions, userProgress, now, nextId, res, loopLog, call, service, client>>

\* getSession(sessionId): the GetCommand is answered.  Without an Item
\* getSession goes on to Put; with one, the progress of a bound user is saved
\* next, and otherwise the session is the answer
ContextGet(f) ==
    /\ f \in calls /\ f.pc = "contextGet"
    /\ IF f.sessionId \notin DOMAIN table
       THEN calls' = (calls \ {f}) \cup {[f EXCEPT !.pc = "contextPut"]} /\ UNCHANGED res
       ELSE IF dbPropagates(table[f.sessionId], f.arg)
       THEN /\ calls' = (calls \ {f}) \cup
                  {[session |-> table[f.sessionId]] @@ [f EXCEPT !.pc = "progress"]}
            /\ UNCHANGED res
       ELSE /\ calls' = calls \ {f}
            /\ res' = [status |-> 200, session |-> table[f.sessionId]]
    /\ UNCHANGED <<sessions, userProgress, now, nextId, loopLog, call, service, table, client>>

\* getSession(sessionId): the PutCommand of the new session is answered; the
\* new session has no user, so it is the answer
ContextPut(f) ==
    /\ f \in calls /\ f.pc = "contextPut"
    /\ table' = dbPut(table, NewSession(f.sessionId, null, now))
    /\ calls' = calls \ {f}
    /\ res' = [status |-> 200, session |-> NewSession(f.sessionId, null, now)]
    /\ UNCHANGED <<sessions, userProgress, now, nextId, loopLog, call, service, client>>

\* the PutCommand of saveUserProgress is answered
ContextProgress(f) ==
    /\ f \in calls /\ f.pc = "progress"
    /\ userProgress' = dbSaveUserProgress(userProgress, f.session.userId, f.arg, now)
    /\ calls' = calls \ {f}
    /\ res' = [status |-> 200, session |-> f.session]
    /\ UNCHANGED <<sessions, now, nextId, loopLog, call, service, table, client>>

\* the PutCommand of saveUserProgress fails: the awaited call throws out of
\* updateSessionContext and out of the route handler, and no answer is sent
ContextProgressFails(f) ==
    /\ f \in calls /\ f.pc = "progress"
    /\ calls' = calls \ {f}
    /\ res' = [status |-> 0, error |-> "saveUserProgress rejected"]
    /\ UNCHANGED <<sessions, userProgress, now, nextId, loopLog, call, service, table, client>>

(***************************************************************************)
(* Context updates in the data service: events bind users to the session   *)
(* while contexts are posted.                                              *)
(***************************************************************************)
MaxContextIds == 2
MaxContextCalls == 2

ContextBodies ==
    { [currentSection |-> "chapter-1", currentTime |-> 50],
      [currentTime |-> 60],
      EmptyMap }

ContextEvents ==
    { [sessionId |-> "s1", eventType |-> "AUDIO_PLAY", timestamp |-> 0,
       metadata |-> EmptyMap, userId |-> "u1"] }

InitContext ==
    /\ now = 0
    /\ service = "data-service"
    /\ ServerStarted
    /\ EngineIdle
    /\ DataServiceIdle
    /\ ClientClosed

ContextPostEvent ==
    \E body \in ContextEvents :
        /\ nextId <= MaxContextIds
        /\ Cardinality(calls) < MaxContextCalls
        /\ PostEvent(body.sessionId, [eventId |-> nextId] @@ body)

ContextPost ==
    \E context \in ContextBodies :
        /\ Cardinality(calls) < MaxContextCalls
        /\ PostContext("s1", context)

NextContext ==
    \/ ContextPostEvent
    \/ ContextPost
    \/ \E f \in calls : StoreGet(f)
    \/ \E f \in calls : StorePut(f)
    \/ \E f \in calls : StoreUpdate(f)
    \/ \E f \in calls : ContextUpdate(f)
    \/ \E f \in calls : ContextGet(f)
    \/ \E f \in calls : ContextPut(f)
    \/ \E f \in calls : ContextProgress(f)
    \/ \E f \in calls : ContextProgressFails(f)

SpecContext == InitContext /\ [][NextContext]_vars

(***************************************************************************)
(* C17.  When a context update carrying currentSection is applied to a     *)
(* session bound to a user and the write of the user-progress record       *)
(* fails, the context update still completes: the session's context fields *)
(* hold the new values and the caller is answered without an error.        *)
(***************************************************************************)
C17_Step ==
    \A f \in calls :
        ContextProgressFails(f) =>
            /\ \A k \in DOMAIN f.arg : table'[f.sessionId][k] = f.arg[k]
            /\ res'.status = 200 /\ ~Has(res', "error")

C17_ProgressFailureTolerated == [][C17_Step]_vars

(***************************************************************************)
(* A collaborator that never answers.  processEvent sends each request     *)
(* with axios.get(url) or axios.post(url, data): no config object, so no   *)
(* timeout option and no AbortSignal, and no axios default is set.  The    *)
(* promise of a request that got no response is never settled, and the     *)
(* await on it never resumes.                                              *)
(***************************************************************************)
\* the request the loop f has just sent is never answered
SvcUnanswered(f) ==
    /\ f \in calls /\ f.op = "processEvent"
    /\ ~(f.pc = "persist" /\ f.adaptations = <<>>)
    /\ calls' = (calls \ {f}) \cup {[f EXCEPT !.op = "await axios"]}
    /\ UNCHANGED <<sessions, userProgress, now, nextId, res, loopLog, call, service, table, client>>

\* a continuation of the loop f: the answer to its request is handled
SvcStep(f) ==
    SvcWindow(f) \/ SvcAnalyze(f) \/ SvcCognitive(f) \/ SvcDecide(f) \/ SvcPersist(f)

MaxPendingEvents == 2
MaxPendingIds == 3

PendingBodies ==
    { [sessionId |-> "s1", eventType |-> "AUDIO_REPLAY", metadata |-> [currentTime |-> 100]],
      [sessionId |-> "s1", eventType |-> "AUDIO_PAUSE", metadata |-> EmptyMap] }

InitPending ==
    /\ now = 0
    /\ service = "event-service"
    /\ ServerStarted
    /\ EngineIdle
    /\ DataServiceIdle
    /\ ClientClosed

PendingIngest ==
    \E body \in PendingBodies :
        /\ LoopStored("s1") < MaxPendingEvents
        /\ nextId <= MaxPendingIds
        /\ SvcIngest(body)

NextPending ==
    \/ PendingIngest
    \/ \E f \in calls : SvcWindow(f)
    \/ \E f \in calls : SvcAnalyze(f)
    \/ \E f \in calls : SvcCognitive(f)
    \/ \E f \in calls : SvcDecide(f)
    \/ \E f \in calls : SvcPersist(f)
    \/ \E f \in calls : SvcFail(f)
    \/ \E f \in calls : SvcUnanswered(f)

\* node runs the continuation of every request that was answered
SpecPending ==
    /\ InitPending
    /\ [][NextPending]_vars
    /\ WF_vars(\E f \in calls : SvcStep(f))

(***************************************************************************)
(* C21.  Every loop execution that was started eventually ends, in Done or *)
(* in a logged failure, also when a collaborator never answers a request:  *)
(* no execution stays pending forever.                                     *)
(***************************************************************************)
\* the loop started for the event eventId has not ended
Pending(eventId) == \E f \in calls : f.event.eventId = eventId

C21_LoopTerminates ==
    \A eventId \in 1..MaxPendingIds : Pending(eventId) ~> ~Pending(eventId)

(***************************************************************************)
(* C22.  The store gives no mutual exclusion per session: the write that   *)
(* ends an addEvent replaces the stored array with the array the call read *)
(* plus its own event, whatever was stored in between, and the call is     *)
(* answered with success.  So two concurrent addEvent calls on one session *)
(* can both succeed while the stored log holds one of the two events.      *)
(***************************************************************************)
C22_Step ==
    \A f \in calls :
        (StoreUpdate(f) /\ f.op = "addEvent") =>
            /\ res'.status = 200
            /\ table'[f.sessionId].events = f.value

C22_LastWriterWins == [][C22_Step]_vars

\* two events were posted for s1 and both calls were answered; the log holds
\* the second and not the first
C22_Witness ==
    /\ service = "data-service"
    /\ calls = {}
    /\ res.status = 200
    /\ nextId = PrefillCount + 3
    /\ "s2" \notin DOMAIN table
    /\ PrefillCount + 2 \in Ids(table["s1"].events)
    /\ PrefillCount + 1 \notin Ids(table["s1"].events)

(***************************************************************************)
(* C23.  In every reachable state, concurrent loop executions for one      *)
(* session included, a session's adaptation log never holds two decisions  *)
(* with the same strategy whose timestamps are less than 5 seconds apart.  *)
(***************************************************************************)
\* no two entries of the log share a strategy within the cooldown period
CooledDown(log) ==
    \A i \in 1..Len(log) : \A j \in (i + 1)..Len(log) :
        log[i].strategy = log[j].strategy =>
            \/ log[j].timestamp - log[i].timestamp >= cooldownPeriod
            \/ log[i].timestamp - log[j].timestamp >= cooldownPeriod

C23_CooldownInLog ==
    /\ \A sessionId \in DOMAIN sessions : CooledDown(AdaptationsOf(sessions, sessionId))
    /\ \A sessionId \in DOMAIN table : CooledDown(AdaptationsOf(table, sessionId))

\* the in-process half: the log the server keeps
C23_InProcessLog ==
    \A sessionId \in DOMAIN sessions : CooledDown(AdaptationsOf(sessions, sessionId))

(***************************************************************************)
(* The rules called on their own: recommendAdaptations of the adaptation   *)
(* service, recommendAdaptations of cognitiveEngine.js (the one the        *)
(* in-process event processor imports), inferCognitiveLoad and             *)
(* calculateBehaviorMetrics, each applied to an argument drawn from a      *)
(* bounded set.                                                            *)
(***************************************************************************)
MaxFrequency == 3
MaxRuleWindow == 3

LoadLevels == {"low", "medium", "high"}

\* a cognitive state for every load, pattern list and pause count
RuleStates ==
    { [sessionId |-> "s1", cognitiveLoad |-> load, patterns |-> p,
       behaviorSummary |-> [pauseCount |-> n]] :
        load \in LoadLevels, p \in PatternLists, n \in 0..MaxPauseCount }

\* pause frequencies: the whole numbers up to the bound and the halves between
RuleFrequencies ==
    { [num |-> k, den |-> 1] : k \in 0..MaxFrequency }
    \cup { [num |-> 2 * k + 1, den |-> 2] : k \in 0..MaxFrequency }

RuleTimes == {0, 10000, 90000}

RuleEvents ==
    { [eventType |-> type, timestamp |-> t, metadata |-> EmptyMap] :
        type \in {"AUDIO_PAUSE", "AUDIO_REPLAY", "audio_replay", "NAVIGATION_REVERSAL",
                  "AUDIO_SEEK"},
        t \in RuleTimes }
    \cup { [eventType |-> "AUDIO_SEEK", timestamp |-> 0, metadata |-> [seekDuration |-> d]] :
             d \in {0 - 5, 5} }

RuleWindows == UNION { [1..n -> RuleEvents] : n \in 1..MaxRuleWindow }

RuleCalls ==
    { [fn |-> "adaptationService.recommendAdaptations", cognitiveState |-> cs] :
        cs \in RuleStates }
    \cup { [fn |-> "cognitiveEngine.recommendAdaptations", cognitiveState |-> cs] :
             cs \in RuleStates }
    \cup { [fn |-> "inferCognitiveLoad", patterns |-> p, metrics |-> [pauseFrequency |-> q]] :
             p \in PatternLists, q \in RuleFrequencies }
    \cup { [fn |-> "calculateBehaviorMetrics", events |-> w] : w \in RuleWindows }

InitRules ==
    /\ now = 0
    /\ service = "engine"
    /\ ServerStarted
    /\ call \in RuleCalls
    /\ DataServiceIdle
    /\ ClientClosed

\* the call of fn returns value
Returns(fn, value) ==
    /\ service = "engine"
    /\ Has(call, "fn") /\ call.fn = fn
    /\ ~Has(call, "returned")
    /\ call' = call @@ [returned |-> value]
    /\ UNCHANGED <<sessions, userProgress, now, nextId, res, loopLog, service, table, calls,
                 client>>

Recommend ==
    /\ Has(call, "cognitiveState")
    /\ Returns("adaptationService.recommendAdaptations",
               recommendAdaptations(call.cognitiveState))

EngineRecommend ==
    /\ Has(call, "cognitiveState")
    /\ Returns("cognitiveEngine.recommendAdaptations",
               cognitiveEngine_recommendAdaptations(call.cognitiveState))

InferLoad ==
    /\ Has(call, "patterns")
    /\ Returns("inferCognitiveLoad", inferCognitiveLoad(call.patterns, call.metrics))

Metrics ==
    /\ Has(call, "events")
    /\ Returns("calculateBehaviorMetrics", calculateBehaviorMetrics(call.events))

NextRules == Recommend \/ EngineRecommend \/ InferLoad \/ Metrics

SpecRules == InitRules /\ [][NextRules]_vars

(***************************************************************************)
(* C24.  For every load, pattern set and pauseCount the strategies the     *)
(* loop recommends are those of the rule table, each once and in rule      *)
(* order.  High: SMART_PAUSE; SLOW_NARRATION iff pauseCount >= 2 or        *)
(* overload or struggle; AUTO_REPEAT and SUMMARY_INJECTION iff confusion   *)
(* or repetition_spike.  Medium: SLOW_NARRATION iff pauseCount >= 3 or     *)
(* fatigue; AUTO_REPEAT iff confusion; SIMPLIFY_INTERACTION and            *)
(* SUMMARY_INJECTION iff navigation_difficulty or repetition_spike.  Low:  *)
(* nothing.  Both deployments of the loop are meant: the orchestrator      *)
(* recommends with the adaptation service, the in-process loop with the    *)
(* engine's recommendAdaptations.                                          *)
(***************************************************************************)
\* the rule table of the statement
RuleTable(load, patterns, pauseCount) ==
    LET is(p) == includes(patterns, p)
    IN CASE load = "high" ->
              <<"SMART_PAUSE">>
              \o (IF pauseCount >= 2 \/ is("overload") \/ is("struggle")
                  THEN <<"SLOW_NARRATION">> ELSE <<>>)
              \o (IF is("confusion") \/ is("repetition_spike")
                  THEN <<"AUTO_REPEAT", "SUMMARY_INJECTION">> ELSE <<>>)
         [] load = "medium" ->
              (IF pauseCount >= 3 \/ is("fatigue") THEN <<"SLOW_NARRATION">> ELSE <<>>)
              \o (IF is("confusion") THEN <<"AUTO_REPEAT">> ELSE <<>>)
              \o (IF is("navigation_difficulty") \/ is("repetition_spike")
                  THEN <<"SIMPLIFY_INTERACTION", "SUMMARY_INJECTION">> ELSE <<>>)
         [] OTHER -> <<>>

\* the recommendation returned is the row of the table for its argument
FollowsRuleTable ==
    call.returned = RuleTable(call.cognitiveState.cognitiveLoad,
                              call.cognitiveState.patterns,
                              call.cognitiveState.behaviorSummary.pauseCount)

C24_RuleTable ==
    (Has(call, "returned") /\ Has(call, "cognitiveState")) => FollowsRuleTable

\* the adaptation service alone
C24_AdaptationService ==
    (Has(call, "returned") /\ call.fn = "adaptationService.recommendAdaptations") =>
        FollowsRuleTable

(***************************************************************************)
(* C30.  The load is classified by the first rule that matches, for every  *)
(* pattern set and pauseFrequency: high iff overload or struggle is        *)
(* present or both confusion and fatigue are; otherwise medium iff         *)
(* confusion, fatigue, navigation_difficulty or repetition_spike is        *)
(* present or pauseFrequency > 2; otherwise low.                           *)
(***************************************************************************)
C30_LoadClassification ==
    (Has(call, "returned") /\ call.fn = "inferCognitiveLoad") =>
        LET is(p) == includes(call.patterns, p)
            high == is("overload") \/ is("struggle") \/ (is("confusion") /\ is("fatigue"))
            medium == \/ is("confusion") \/ is("fatigue")
                      \/ is("navigation_difficulty") \/ is("repetition_spike")
                      \/ call.metrics.pauseFrequency.num
                            > 2 * call.metrics.pauseFrequency.den
        IN /\ (call.returned = "high") = high
           /\ (call.returned = "medium") = (~high /\ medium)
           /\ (call.returned = "low") = (~high /\ ~medium)

\* the load returned for confusion with fatigue and a pauseFrequency of 2.5
C30_Witness ==
    /\ Has(call, "returned") /\ call.fn = "inferCognitiveLoad"
    /\ call.patterns = <<"confusion", "fatigue">>
    /\ call.metrics.pauseFrequency = [num |-> 5, den |-> 2]
    /\ call.returned = "high"

(***************************************************************************)
(* Vocabulary of the claims on the metrics of a window.                    *)
(***************************************************************************)
\* the number of events of the window that satisfy Test
CountOf(events, Test(_)) == Cardinality({i \in 1..Len(events) : Test(events[i])})

\* last.timestamp - first.timestamp, in milliseconds
SpanOf(events) == events[Len(events)].timestamp - events[1].timestamp

IsPause(e) == e.eventType \in {"AUDIO_PAUSE", "audio_pause"}

IsExplicitReversal(e) == e.eventType = "NAVIGATION_REVERSAL"

\* a REPLAY event, or a SEEK event with a negative seek delta
IsReplayOrBackwardSeek(e) ==
    \/ e.eventType \in {"AUDIO_REPLAY", "audio_replay"}
    \/ /\ e.eventType = "AUDIO_SEEK"
       /\ "seekDuration" \in DOMAIN e.metadata
       /\ e.metadata.seekDuration < 0

(***************************************************************************)
(* C28.  pauseFrequency is the number of PAUSE events of the window        *)
(* divided by T, the span of the window in minutes with a minimum of 1:    *)
(* for every window whose span is below one minute, zero included,         *)
(* pauseFrequency equals the pause count (2 pauses within 10 seconds give  *)
(* pauseFrequency 2).                                                      *)
(***************************************************************************)
C28_PauseFrequency ==
    (Has(call, "returned") /\ call.fn = "calculateBehaviorMetrics"
       /\ SpanOf(call.events) >= 0) =>
        LET pauses == CountOf(call.events, IsPause)
            T == Max(SpanOf(call.events), MS_PER_MINUTE)
            q == call.returned.pauseFrequency
        IN \* q = pauses / (T / 60000), in whole seconds (the times are whole seconds)
           q.num * (T \div 1000) = pauses * (MS_PER_MINUTE \div 1000) * q.den

(***************************************************************************)
(* C29.  For every window, navigationReversals is the number of explicit   *)
(* NAVIGATION_REVERSAL events when there is at least one, and replayCount  *)
(* (REPLAY events plus SEEK events with a negative seek delta) when there  *)
(* is none: three replays with no explicit reversal give 3.                *)
(***************************************************************************)
C29_NavigationReversals ==
    (Has(call, "returned") /\ call.fn = "calculateBehaviorMetrics") =>
        LET explicit == CountOf(call.events, IsExplicitReversal)
            replays == CountOf(call.events, IsReplayOrBackwardSeek)
        IN /\ call.returned.replayCount = replays
           /\ call.returned.navigationReversals =
                 IF explicit >= 1 THEN explicit ELSE replays

\* the metrics of a replay and two backward seeks, with no explicit reversal
C29_Witness ==
    /\ Has(call, "returned") /\ call.fn = "calculateBehaviorMetrics"
    /\ Len(call.events) = 3
    /\ call.events[1].eventType = "AUDIO_REPLAY"
    /\ \A i \in 2..3 :
          /\ call.events[i].eventType = "AUDIO_SEEK"
          /\ call.events[i].metadata = [seekDuration |-> 0 - 5]
    /\ call.returned.navigationReversals = 3

(***************************************************************************)
(* Decisions: a listener pauses and replays while the player reports its   *)
(* speed and position, in the in-process server and in the microservices.  *)
(* A quarter of a minute may pass between requests, so that two pauses are *)
(* a pause frequency of 8 and three pauses one of 6.                       *)
(***************************************************************************)
MaxDecisionEvents == 3
MaxDecisionIds == 5
MaxDecisionTicks == 2
DecisionSteps == {15000}

DecisionBodies ==
    { [sessionId |-> "s1", eventType |-> "AUDIO_PAUSE", metadata |-> EmptyMap],
      [sessionId |-> "s1", eventType |-> "AUDIO_PAUSE",
       metadata |-> [speed |-> 75, currentTime |-> 100]],
      [sessionId |-> "s1", eventType |-> "AUDIO_REPLAY", metadata |-> EmptyMap] }

InitDecision ==
    /\ now = 0
    /\ service \in {"server", "event-service"}
    /\ ServerStarted
    /\ EngineIdle
    /\ DataServiceIdle
    /\ ClientClosed

\* another request is sent: the player sends an event when the loop of the
\* event before it has ended (loops in flight together are followed in SpecLoop)
DecisionOpen ==
    /\ calls = {}
    /\ LoopStored("s1") < MaxDecisionEvents
    /\ nextId <= MaxDecisionIds

DecisionTick ==
    calls = {} /\ \E step \in DecisionSteps : Advance(step, MaxDecisionTicks * step)

NextDecision ==
    \/ DecisionTick
    \/ \E body \in DecisionBodies : DecisionOpen /\ Ingest(body)
    \/ \E body \in DecisionBodies : DecisionOpen /\ SvcIngest(body)
    \/ \E f \in calls : SvcWindow(f)
    \/ \E f \in calls : SvcAnalyze(f)
    \/ \E f \in calls : SvcCognitive(f)
    \/ \E f \in calls : SvcDecide(f)
    \/ \E f \in calls : SvcPersist(f)

SpecDecision == InitDecision /\ [][NextDecision]_vars

(***************************************************************************)
(* Vocabulary of the claims on decisions.                                  *)
(***************************************************************************)
\* the decisions this step made for the session sessionId: in process the ones
\* the handler appended, in the microservices the ones /decide returned to the
\* loop f
Decided(strategy) ==
    IF service = "server"
    THEN IF LoopRan
         THEN LET appended == Appended(loopLog'.sessionId)
              IN {appended[i] : i \in WithStrategy(appended, strategy)}
         ELSE {}
    ELSE UNION { {g.adaptations[i] : i \in WithStrategy(g.adaptations, strategy)} :
                    g \in {h \in calls' \ calls : h.pc = "persist" /\ \E f \in calls : SvcDecide(f)} }

\* the session the decisions of this step are made for, as the store holds it
\* at the moment of the decision
LiveSession ==
    IF service = "server" THEN sessions'[loopLog'.sessionId] ELSE table["s1"]

(***************************************************************************)
(* C25.  Every SLOW_NARRATION decision has targetSpeed 0.75 when the       *)
(* session's playbackSpeed at the moment of the decision is above 0.75 and *)
(* 0.50 otherwise (exactly 0.75 included), with duration 15000 ms; so a    *)
(* second SLOW_NARRATION made after the session's speed has dropped to     *)
(* 0.75 targets 0.50.                                                      *)
(***************************************************************************)
C25_Step ==
    \A a \in Decided("SLOW_NARRATION") :
        /\ a.parameters.targetSpeed = IF LiveSession.playbackSpeed > 75 THEN 75 ELSE 50
        /\ a.parameters.duration = 15000

C25_SlowNarrationStages == [][C25_Step]_vars

\* the in-process half: the decisions the server's loop appends
C25_InProcess == [][service = "server" => C25_Step]_vars

(***************************************************************************)
(* C26.  Every AUTO_REPEAT decision has replayDuration 30 and targetTime   *)
(* max(0, c - 30), where c is the session's currentTime at the moment of   *)
(* the decision (0 for a session that never received a position).          *)
(***************************************************************************)
C26_Step ==
    \A a \in Decided("AUTO_REPEAT") :
        /\ a.parameters.replayDuration = 30
        /\ a.parameters.targetTime = Max(0, LiveSession.currentTime - 30)

C26_AutoRepeatTarget == [][C26_Step]_vars

\* the in-process half
C26_InProcess == [][service = "server" => C26_Step]_vars

(***************************************************************************)
(* C27.  Every adaptation decision appended to a session has a non-empty   *)
(* triggeredBy: the pattern set of the cognitive state that produced it    *)
(* when that set is non-empty, and the sentinel value otherwise (a         *)
(* medium-load SLOW_NARRATION caused by the pause count alone).            *)
(***************************************************************************)
Sentinel == <<"behavioral-signals">>

\* a was triggered by the patterns, or by the sentinel when there is none
TriggeredBy(a, patterns) ==
    /\ a.triggeredBy # <<>>
    /\ a.triggeredBy = IF patterns # <<>> THEN patterns ELSE Sentinel

C27_Step ==
    /\ (service = "server" /\ LoopRan /\ Has(loopLog', "patterns")) =>
          LET appended == Appended(loopLog'.sessionId)
          IN \A i \in 1..Len(appended) : TriggeredBy(appended[i], loopLog'.patterns)
    /\ \A f \in calls :
          (SvcPersist(f) /\ f.adaptations # <<>>) =>
              LET log == table'[f.event.sessionId].adaptations
              IN /\ log[Len(log)] = Head(f.adaptations)
                 /\ TriggeredBy(log[Len(log)], f.cognitiveState.patterns)

MaxConfidenceWindow == 24

ConfidenceWindows ==
    { [i \in 1..n |-> IF i = n THEN last ELSE e] :
        n \in 1..MaxConfidenceWindow, e \in WindowEvents, last \in WindowEvents }

InitConfidence ==
    /\ now = 0
    /\ service = "engine"
    /\ ServerStarted
    /\ call \in { [sessionId |-> "s1", args |-> [events |-> w]] : w \in ConfidenceWindows }
    /\ DataServiceIdle
    /\ ClientClosed

NextConfidence == Infer

SpecConfidence == InitConfidence /\ [][NextConfidence]_vars

(***************************************************************************)
(* C31.  For every non-empty window of n events with p detected patterns,  *)
(* confidence = min(min(n/20, 0.8) + (0.1 if p >= 1) + (0.1 if p >= 2),    *)
(* 1.0), so the confidence of an inferred state lies within [0, 1]         *)
(* (confidence in hundredths).                                             *)
(***************************************************************************)
C31_Confidence ==
    (Has(call, "returned") /\ Has(call.args, "events") /\ call.args.events # <<>>) =>
        LET n == Len(call.args.events)
            p == Len(call.returned.patterns)
            sample == IF 5 * n < 80 THEN 5 * n ELSE 80
            boosted == sample + (IF p >= 1 THEN 10 ELSE 0) + (IF p >= 2 THEN 10 ELSE 0)
        IN /\ call.returned.confidence = (IF boosted < 100 THEN boosted ELSE 100)
           /\ call.returned.confidence \in 0..100

\* inference has returned for twenty replays: three patterns and the full
\* confidence of 1.0
C31_Witness ==
    /\ Has(call, "returned")
    /\ Len(call.args.events) = 20
    /\ Len(call.returned.patterns) = 3
    /\ call.returned.confidence = 100

(***************************************************************************)
(* components/AudioPlayer.tsx: the delivery surface.  The player polls the *)
(* active adaptations every 2 s and applies the ones it has not seen; a    *)
(* slowdown below 0.75 waits for the listener's answer.  Followed are the  *)
(* playback speed, the audio position, the pending confirmation, the ids   *)
(* seen and the console's [ADAPTATION RECEIVED] lines (by adaptation id);  *)
(* the alert banner and the simplified mode, which expire on timers of     *)
(* their own, are not.                                                     *)
(***************************************************************************)
\* useState<AdaptationDecision | null>(null): no adaptation awaits an answer
NoPending == EmptyMap

\* the state of a player just mounted, polling for sessionId
PlayerMounted(sessionId) ==
    [sessionId |-> sessionId, playbackSpeed |-> 100, audioTime |-> 0,
     pendingAdaptation |-> NoPending, seenAdaptationIds |-> {}, received |-> <<>>]

\* adaptation.parameters.targetSpeed || fallback
targetSpeedOf(adaptation, fallback) ==
    IF Has(adaptation.parameters, "targetSpeed") /\ adaptation.parameters.targetSpeed # 0
    THEN adaptation.parameters.targetSpeed ELSE fallback

\* the forEach body without the check of seenAdaptationIds: every adaptation a
\* poll returns is applied
applyAdaptation_unseenEachPoll(player, adaptation) ==
    LET seen == [player EXCEPT
                    !.seenAdaptationIds = @ \cup {adaptation.adaptationId},
                    !.received = Append(@, adaptation.adaptationId)]
    IN CASE adaptation.strategy = "SLOW_NARRATION" ->
              IF targetSpeedOf(adaptation, 75) < 75
              THEN [seen EXCEPT !.pendingAdaptation = adaptation]
              ELSE [seen EXCEPT !.playbackSpeed = targetSpeedOf(adaptation, 75)]
         [] adaptation.strategy = "AUTO_REPEAT" ->
              [seen EXCEPT !.audioTime =
                  IF Has(adaptation.parameters, "targetTime")
                  THEN adaptation.parameters.targetTime ELSE 0]
         [] OTHER -> seen

\* the body of applyAdaptations' forEach for one adaptation.  SMART_PAUSE reads
\* isPlaying of the render the polling effect was created in, which is false,
\* so it pauses nothing; it, SUMMARY_INJECTION and SIMPLIFY_INTERACTION change
\* none of the fields followed
applyAdaptation(player, adaptation) ==
    IF adaptation.adaptationId \in player.seenAdaptationIds THEN player
    ELSE LET seen == [player EXCEPT
                         !.seenAdaptationIds = @ \cup {adaptation.adaptationId},
                         !.received = Append(@, adaptation.adaptationId)]
         IN CASE adaptation.strategy = "SLOW_NARRATION" ->
                   IF targetSpeedOf(adaptation, 75) < 75
                   THEN [seen EXCEPT !.pendingAdaptation = adaptation]
                   ELSE [seen EXCEPT !.playbackSpeed = targetSpeedOf(adaptation, 75)]
              [] adaptation.strategy = "AUTO_REPEAT" ->
                   [seen EXCEPT !.audioTime =
                       IF Has(adaptation.parameters, "targetTime")
                       THEN adaptation.parameters.targetTime ELSE 0]
              [] OTHER -> seen

\* adaptations.forEach(adaptation => { ... })
RECURSIVE applyAdaptations(_, _)
applyAdaptations(player, adaptations) ==
    IF adaptations = <<>> THEN player
    ELSE applyAdaptations(applyAdaptation(player, Head(adaptations)), Tail(adaptations))

\* the poll's request is answered and not yet handled by the player
PollAnswered == Has(res, "activeAdaptations")

\* the interval's callback asks for the active adaptations of the session
Poll ==
    /\ ~PollAnswered
    /\ GetActive(client.sessionId)

\* the callback resumes with the response: applyAdaptations(adaptations)
PollApplied ==
    /\ PollAnswered
    /\ client' = applyAdaptations(client, res.activeAdaptations)
    /\ res' = NoResponse
    /\ UNCHANGED <<sessions, userProgress, now, nextId, loopLog, call, service, table, calls>>

\* handleConfirmAdaptation(accepted), which returns at once with nothing pending
handleConfirmAdaptation(accepted) ==
    /\ client.pendingAdaptation # NoPending
    /\ client' = [client EXCEPT
                     !.playbackSpeed = IF accepted
                                       THEN targetSpeedOf(client.pendingAdaptation, 56)
                                       ELSE @,
                     !.pendingAdaptation = NoPending]
    /\ UNCHANGED <<sessions, userProgress, now, nextId, res, loopLog, call, service, table, calls>>

(***************************************************************************)
(* Delivery: a listener starts playing and rewinds, the player reporting   *)
(* its speed with AUDIO_PLAY; five seconds (the cooldown) may pass between *)
(* requests; the player polls the in-process server and the listener       *)
(* answers a confirmation.                                                 *)
(***************************************************************************)
MaxDeliveryEvents == 4
MaxDeliveryTicks == 2
DeliverySteps == {5000}

\* what handlePlayPause and handleSeek(-10) emit for a player at speed
DeliveryBodies(speed) ==
    { [sessionId |-> "s1", eventType |-> "AUDIO_PLAY",
       metadata |-> [currentTime |-> 100, speed |-> speed]],
      [sessionId |-> "s1", eventType |-> "AUDIO_REPLAY",
       metadata |-> [currentTime |-> 90, previousTime |-> 100, replayDuration |-> 10]] }

InitDelivery ==
    /\ now = 0
    /\ service = "server"
    /\ ServerStarted
    /\ EngineIdle
    /\ DataServiceIdle
    /\ client = PlayerMounted("s1")

\* another event is sent: when the player has handled the answer to its poll
DeliveryOpen ==
    /\ ~PollAnswered
    /\ StoredEvents("s1") < MaxDeliveryEvents

DeliveryTick ==
    /\ ~PollAnswered
    /\ \E step \in DeliverySteps : Advance(step, MaxDeliveryTicks * step)

NextDelivery ==
    \/ DeliveryTick
    \/ \E body \in DeliveryBodies(client.playbackSpeed) : DeliveryOpen /\ Ingest(body)
    \/ Poll
    \/ PollApplied
    \/ \E accepted \in BOOLEAN : handleConfirmAdaptation(accepted)

SpecDelivery == InitDelivery /\ [][NextDelivery]_vars

(***************************************************************************)
(* C32.  Delivery is idempotent by id: however many polls return the same  *)
(* adaptation, the player applies (or prompts for) each adaptationId at    *)
(* most once: no id occurs twice among the adaptations it received, and a  *)
(* poll's answer makes it receive exactly the ids it had not seen.         *)
(***************************************************************************)
C32_Step ==
    PollApplied =>
        LET returned == {res.activeAdaptations[i].adaptationId :
                            i \in 1..Len(res.activeAdaptations)}
            added == SubSeq(client'.received, Len(client.received) + 1,
                            Len(client'.received))
        IN /\ SubSeq(client'.received, 1, Len(client.received)) = client.received
           /\ {added[i] : i \in 1..Len(added)} = returned \ client.seenAdaptationIds
           /\ \A i, j \in 1..Len(client'.received) :
                 client'.received[i] = client'.received[j] => i = j

C32_IdempotentById == [][C32_Step]_vars

\* a poll has returned an adaptation the player received from an earlier poll
C32_Witness ==
    /\ PollAnswered
    /\ client.received # <<>>
    /\ \E i \in 1..Len(res.activeAdaptations) :
          res.activeAdaptations[i].adaptationId = client.received[1]

(***************************************************************************)
(* Polling under load: a listener rewinds again and again, a cooldown      *)
(* period passing or not between the rewinds, while the player polls the   *)
(* in-process server or, through the gateway, the data service.  The       *)
(* in-process server, which keeps the cooldown, is followed for five       *)
(* rewinds; the microservices, which decide without it, for three.         *)
(***************************************************************************)
MaxPollingEvents == 5
MaxPollingTicks == 4
MaxDataPollingEvents == 3
MaxDataPollingIds == 7

PollingBody ==
    [sessionId |-> "s1", eventType |-> "AUDIO_REPLAY",
     metadata |-> [currentTime |-> 90, previousTime |-> 100, replayDuration |-> 10]]

InitPolling ==
    /\ now = 0
    /\ service \in {"server", "event-service"}
    /\ ServerStarted
    /\ EngineIdle
    /\ DataServiceIdle
    /\ client = PlayerMounted("s1")

\* another rewind is sent: when the loop of the one before it has ended and
\* the player has handled the answer to its poll
PollingOpen ==
    /\ calls = {}
    /\ ~PollAnswered
    /\ IF service = "server" THEN StoredEvents("s1") < MaxPollingEvents
       ELSE LoopStored("s1") < MaxDataPollingEvents /\ nextId <= MaxDataPollingIds

PollingTick ==
    /\ calls = {}
    /\ ~PollAnswered
    /\ \E step \in DeliverySteps : Advance(step, MaxPollingTicks * step)

\* the interval's callback, its request routed to the data service
DataPoll ==
    /\ ~PollAnswered
    /\ calls = {}
    /\ DataGetActive(client.sessionId)

NextPolling ==
    \/ PollingTick
    \/ PollingOpen /\ Ingest(PollingBody)
    \/ PollingOpen /\ SvcIngest(PollingBody)
    \/ \E f \in calls : SvcWindow(f)
    \/ \E f \in calls : SvcAnalyze(f)
    \/ \E f \in calls : SvcCognitive(f)
    \/ \E f \in calls : SvcDecide(f)
    \/ \E f \in calls : SvcPersist(f)
    \/ Poll
    \/ DataPoll
    \/ PollApplied

SpecPolling == InitPolling /\ [][NextPolling]_vars

(***************************************************************************)
(* C33.  Delivery is at-least-once: every adaptation appended to a session *)
(* is returned by the 'active adaptations' read to a player that polls     *)
(* while the adaptation is within its duration window, whatever else was   *)
(* appended in the meantime: when a poll is answered, each adaptation of   *)
(* the session still within its window is in the answer or was in an       *)
(* earlier one.                                                            *)
(***************************************************************************)
C33_AtLeastOnce ==
    PollAnswered =>
        LET log == AdaptationsOf(IF service = "server" THEN sessions ELSE table,
                                 client.sessionId)
            returned == {res.activeAdaptations[i].adaptationId :
                            i \in 1..Len(res.activeAdaptations)}
        IN \A i \in 1..Len(log) :
              now - log[i].timestamp < durationOf(log[i]) =>
                  log[i].adaptationId \in returned \cup client.seenAdaptationIds

\* the same for the in-process server alone and for the data service alone
C33_InProcess == service = "server" => C33_AtLeastOnce

C33_DataService == service = "event-service" => C33_AtLeastOnce

(***************************************************************************)
(* C34.  On the player, every SLOW_NARRATION decision whose target speed   *)
(* is below 0.75 enters a pending-confirmation state keyed by its          *)
(* adaptationId and leaves it only by being confirmed (the target speed is *)
(* applied) or declined (discarded): an adaptation never lowers the speed  *)
(* below 0.75 without a confirmation, and a pending decision is never      *)
(* dropped or replaced without one of the two transitions.                 *)
(***************************************************************************)
\* the adaptations of a poll's answer the player had not seen that ask for a
\* slowdown below 0.75
NeedConfirmation ==
    {res.activeAdaptations[i] : i \in
        {j \in 1..Len(res.activeAdaptations) :
            LET a == res.activeAdaptations[j]
            IN /\ a.adaptationId \notin client.seenAdaptationIds
               /\ a.strategy = "SLOW_NARRATION"
               /\ targetSpeedOf(a, 75) < 75}}

\* such a decision becomes the pending one
C34_Enters ==
    (PollApplied /\ NeedConfirmation # {}) => client'.pendingAdaptation \in NeedConfirmation

\* the speed goes below 0.75 through an accepted confirmation alone, to the
\* target of the decision that was pending
C34_SpeedConfirmed ==
    (client'.playbackSpeed < 75 /\ client'.playbackSpeed # client.playbackSpeed) =>
        /\ handleConfirmAdaptation(TRUE)
        /\ client'.playbackSpeed = client.pendingAdaptation.parameters.targetSpeed

\* a pending decision leaves the pending state by a confirmation or a refusal
C34_Leaves ==
    (client.pendingAdaptation # NoPending
     /\ client'.pendingAdaptation # client.pendingAdaptation) =>
        \E accepted \in BOOLEAN : handleConfirmAdaptation(accepted)

C34_PendingConfirmation == [][C34_Enters /\ C34_SpeedConfirmed /\ C34_Leaves]_vars

\* the first two parts alone
C34_EntersAndConfirmed == [][C34_Enters /\ C34_SpeedConfirmed]_vars

(***************************************************************************)
(* C35.  Whenever inference tags a window with engagement, engagement is   *)
(* the only pattern of the result and the inferred load is low: engagement *)
(* never co-occurs with confusion, overload, fatigue,                      *)
(* navigation_difficulty, struggle or repetition_spike.                    *)
(***************************************************************************)
C35_EngagementAlone ==
    (Has(call, "returned") /\ includes(call.returned.patterns, "engagement")) =>
        /\ call.returned.patterns = <<"engagement">>
        /\ call.returned.cognitiveLoad = "low"

\* inference has returned engagement for a window of plays, ten seconds apart
C35_Witness ==
    /\ Has(call, "returned")
    /\ Has(call.args, "events")
    /\ Len(call.args.events) = 3
    /\ \A i \in 1..3 : call.args.events[i].eventType = "AUDIO_PLAY"
    /\ call.args.events[3].timestamp - call.args.events[1].timestamp = 10000
    /\ call.returned.patterns = <<"engagement">>
    /\ call.returned.cognitiveLoad = "low"

(***************************************************************************)
(* C36.  Whenever inference tags a window with repetition_spike it also    *)
(* tags it with confusion (navigationReversals falls back to replayCount), *)
(* so the load of any window with two or more replays is at least medium.  *)
(***************************************************************************)
C36_SpikeImpliesConfusion ==
    (Has(call, "returned") /\ Has(call.args, "events") /\ call.args.events # <<>>) =>
        /\ includes(call.returned.patterns, "repetition_spike") =>
              includes(call.returned.patterns, "confusion")
        /\ call.returned.behaviorSummary.replayCount >= 2 =>
              /\ includes(call.returned.patterns, "repetition_spike")
              /\ call.returned.cognitiveLoad \in {"medium", "high"}

\* inference has returned for two replays and a play, no explicit reversal
C36_Witness ==
    /\ Has(call, "returned")
    /\ Has(call.args, "events")
    /\ Len(call.args.events) = 3
    /\ \A i \in 1..2 : call.args.events[i].eventType = "AUDIO_REPLAY"
    /\ call.args.events[3].eventType = "AUDIO_PLAY"
    /\ call.returned.behaviorSummary.navigationReversals = 2
    /\ call.returned.patterns = <<"confusion", "repetition_spike">>
    /\ call.returned.cognitiveLoad = "medium"

(***************************************************************************)
(* The four store operations of the data service on one session, which the *)
(* table does not hold at first, up to MaxFramesCalls of them in flight    *)
(* together.                                                               *)
(***************************************************************************)
MaxFramesCalls == 2
MaxFramesLog == 2
MaxFramesIds == 3

FramesEvent(eventId) ==
    [eventId |-> eventId, sessionId |-> "s1", eventType |-> "AUDIO_PLAY", timestamp |-> 0,
     metadata |-> EmptyMap]

FramesAdaptation ==
    createAdaptation(EmptyWindowState("s1", 0), "SMART_PAUSE", <<"behavioral-signals">>,
                     EmptyMap, 0, 0)

FramesContexts ==
    { [currentTime |-> 50], [playbackSpeed |-> 75, currentSection |-> "chapter-1"],
      EmptyMap }

InitFrames ==
    /\ now = 0
    /\ service = "data-service"
    /\ ServerStarted
    /\ EngineIdle
    /\ DataServiceIdle
    /\ ClientClosed

\* another operation on the list attribute is requested
FramesOpen(attribute) ==
    /\ Cardinality(calls) < MaxFramesCalls
    /\ ("s1" \in DOMAIN table /\ Has(table["s1"], attribute)) =>
          Len(table["s1"][attribute]) < MaxFramesLog

NextFrames ==
    \/ FramesOpen("events") /\ nextId <= MaxFramesIds /\ PostEvent("s1", FramesEvent(nextId))
    \/ FramesOpen("cognitiveStates") /\ PostCognitive("s1", EmptyWindowState("s1", 0))
    \/ FramesOpen("adaptations") /\ PostAdaptation("s1", FramesAdaptation)
    \/ \E context \in FramesContexts :
          Cardinality(calls) < MaxFramesCalls /\ PostContext("s1", context)
    \/ \E f \in calls : StoreGet(f)
    \/ \E f \in calls : StorePut(f)
    \/ \E f \in calls : StoreUpdate(f)
    \/ \E f \in calls : ContextUpdate(f)
    \/ \E f \in calls : ContextGet(f)
    \/ \E f \in calls : ContextPut(f)

SpecFrames == InitFrames /\ [][NextFrames]_vars

(***************************************************************************)
(* C37.  Each store operation changes only its own part of the session:    *)
(* appendEvent leaves cognitiveStates, adaptations and the context fields  *)
(* unchanged, appendCognitiveState and appendAdaptation leave the other    *)
(* two logs and the context unchanged, and updateContext leaves the three  *)
(* logs and every context field it was not given unchanged; hence a        *)
(* concurrent appendEvent and appendAdaptation on one session both take    *)
(* effect.                                                                 *)
(***************************************************************************)
SessionLogs == {"events", "cognitiveStates", "adaptations"}

ContextFields == {"currentTime", "playbackSpeed", "currentSection"}

\* the step leaves the attributes of the stored session in keep as they are
Keeps(sessionId, keep) ==
    sessionId \in DOMAIN table =>
        \A k \in keep \cap DOMAIN table[sessionId] :
            /\ k \in DOMAIN table'[sessionId]
            /\ table'[sessionId][k] = table[sessionId][k]

\* the commands that write: the UpdateCommand of an operation
C37_Updates ==
    \A f \in calls :
        /\ (StoreUpdate(f) /\ f.op # "updateSessionUser") =>
              Keeps(f.sessionId, (SessionLogs \cup ContextFields) \ {dbAttribute(f.op)})
        /\ ContextUpdate(f) =>
              Keeps(f.sessionId, (SessionLogs \cup ContextFields) \ DOMAIN f.arg)

\* the PutCommand of the getSession an operation starts with
C37_Puts ==
    \A f \in calls :
        /\ StorePut(f) =>
              Keeps(f.sessionId, (SessionLogs \cup ContextFields) \ {dbAttribute(f.op)})
        /\ ContextPut(f) => Keeps(f.sessionId, SessionLogs \cup ContextFields)

C37_OwnPartOnly == [][C37_Updates /\ C37_Puts]_vars

\* the UpdateCommands alone
C37_UpdatesOnly == [][C37_Updates]_vars

\* the appends of an event and of an adaptation in flight together: the
\* adaptation's operation leaves the events as they are
C37_AppendsBothTakeEffect ==
    [][\A f \in calls :
          ((StorePut(f) \/ StoreUpdate(f)) /\ f.op = "addAdaptation") =>
              Keeps(f.sessionId, {"events"})]_vars

\* the operations of the in-memory store, which run to their end unawaited
C37_InMemory ==
    \A sessionId \in DOMAIN sessions :
        LET same(S, keep) ==
                \A k \in keep : S[sessionId][k] = sessions[sessionId][k]
            parts == SessionLogs \cup ContextFields
        IN /\ same(addEvent(sessions, sessionId, FramesEvent(nextId), now),
                   parts \ {"events"})
           /\ same(updateCognitiveState(sessions, sessionId,
                                        EmptyWindowState(sessionId, now), now),
                   parts \ {"cognitiveStates"})
           /\ same(addAdaptation(sessions, sessionId, FramesAdaptation, now),
                   parts \ {"adaptations"})
           /\ \A context \in FramesContexts :
                 same(updateSessionContext(sessions, sessionId, context, now),
                      parts \ DOMAIN context)

(***************************************************************************)
(* The eventEmitter singleton of the browser (EventEmitter.ts) in front of *)
(* the in-process server.  client holds the emitter's fields and the       *)
(* axios.post calls that have not settled; a call reaches the server       *)
(* (atServer), the server answers in res, and the answer settles the call. *)
(* Each user action takes one millisecond of Date.now().                   *)
(***************************************************************************)
NoRequest == EmptyMap

\* constructor: a session id, an empty queue, startBatchProcessing()
EmitterConstructed ==
    [sessionId |-> "s1", eventQueue |-> <<>>, batchTimer |-> TRUE,
     requests |-> {}, atServer |-> NoRequest]

\* generateSessionId(): an id no earlier session had
generateSessionId(sessionId) == IF sessionId = "s1" THEN "s2" ELSE "s3"

isCriticalEvent(eventType) ==
    eventType \in {"SESSION_START", "SESSION_END", "AUDIO_PAUSE", "AUDIO_REPLAY"}

\* sendImmediate up to its await: axios.post('/api/events/ingest', ...)
sendImmediate(emitter, event) ==
    [emitter EXCEPT !.requests =
        @ \cup {[url |-> "/api/events/ingest", event |-> event,
                 body |-> [sessionId |-> emitter.sessionId, eventType |-> event.eventType,
                           metadata |-> event.metadata]]}]

\* emit(eventType, metadata): every event is pushed to the queue, a critical
\* one is sent at once as well
emit(emitter, eventType, metadata, t) ==
    LET event == [eventType |-> eventType,
                  metadata |-> [timestamp |-> t] @@ metadata]
        queued == [emitter EXCEPT !.eventQueue = Append(@, event)]
    IN IF isCriticalEvent(eventType) THEN sendImmediate(queued, event) ELSE queued

\* processBatch up to its await: the queue is copied, emptied and posted
processBatch(emitter) ==
    IF emitter.eventQueue = <<>> THEN emitter
    ELSE [emitter EXCEPT
             !.eventQueue = <<>>,
             !.requests = @ \cup {[url |-> "/api/events/batch",
                                   body |-> [sessionId |-> emitter.sessionId,
                                             events |-> emitter.eventQueue]]}]

startSession(emitter, t) == emit(emitter, "SESSION_START", EmptyMap, t)

\* endSession(): emit, processBatch(), clearInterval(batchTimer)
endSession(emitter, t) ==
    [processBatch(emit(emitter, "SESSION_END", EmptyMap, t)) EXCEPT !.batchTimer = FALSE]

\* refreshSession(): endSession(); a new session id; startSession()
refreshSession(emitter, t) ==
    startSession([endSession(emitter, t) EXCEPT !.sessionId = generateSessionId(@)], t)

\* the catch blocks: sendImmediate pushes its event, processBatch puts its
\* events back in front
requestFailed(emitter, request) ==
    [emitter EXCEPT
        !.requests = @ \ {request},
        !.atServer = IF @ = request THEN NoRequest ELSE @,
        !.eventQueue = IF request.url = "/api/events/ingest"
                       THEN Append(@, request.event)
                       ELSE request.body.events \o @]

MaxEmitterClock == 2
MaxEmitterSessions == 2

\* what the player passes to emit for its own events
PlayerMetadata == [currentTime |-> 100, speed |-> 100]

\* a handler of the page runs: the emitter changes and a millisecond passes
UserAction(emitter) ==
    /\ now < MaxEmitterClock
    /\ client' = emitter
    /\ now' = now + 1
    /\ UNCHANGED <<sessions, userProgress, nextId, res, loopLog, call, service, table, calls>>

\* App's effect on authentication
StartSession == UserAction(startSession(client, now))

\* AudioPlayer.handlePlayPause
EmitPlay == UserAction(emit(client, "AUDIO_PLAY", PlayerMetadata, now))

EmitPause == UserAction(emit(client, "AUDIO_PAUSE", PlayerMetadata, now))

\* App.handlePlayBook
RefreshSession ==
    /\ client.sessionId # "s" \o ToString(MaxEmitterSessions)
    /\ UserAction(refreshSession(client, now))

\* the cleanup of App's effect
EndSession == UserAction(endSession(client, now))

EmitterStep(emitter) ==
    /\ client' = emitter
    /\ UNCHANGED <<sessions, userProgress, now, nextId, res, loopLog, call, service, table, calls>>

\* the interval set by startBatchProcessing fires
BatchTimerFires ==
    /\ client.batchTimer
    /\ client.eventQueue # <<>>
    /\ EmitterStep(processBatch(client))

\* a posted request reaches the server, which handles one request at a time
RequestArrives(request) ==
    /\ request \in client.requests
    /\ client.atServer = NoRequest
    /\ res = NoResponse
    /\ EmitterStep([client EXCEPT !.atServer = request])

\* a request waits at the server
ServerReady == client.atServer # NoRequest /\ res = NoResponse

ServerHandles ==
    /\ ServerReady
    /\ IF client.atServer.url = "/api/events/ingest"
       THEN Ingest(client.atServer.body)
       ELSE IngestBatch(client.atServer.body)

\* the answer settles the call: axios throws on a status outside 2xx
RequestAnswered ==
    /\ client.atServer # NoRequest
    /\ res # NoResponse
    /\ client' = IF res.status = 200
                 THEN [client EXCEPT !.requests = @ \ {client.atServer},
                                     !.atServer = NoRequest]
                 ELSE requestFailed(client, client.atServer)
    /\ res' = NoResponse
    /\ UNCHANGED <<sessions, userProgress, now, nextId, loopLog, call, service, table, calls>>

\* the request is lost before it reaches the server
RequestFails(request) ==
    /\ request \in client.requests
    /\ client.atServer # request
    /\ EmitterStep(requestFailed(client, request))

InitEmitter ==
    /\ now = 0
    /\ service = "server"
    /\ ServerStarted
    /\ EngineIdle
    /\ DataServiceIdle
    /\ client = EmitterConstructed

Transport ==
    \/ BatchTimerFires
    \/ \E request \in client.requests : RequestArrives(request)
    \/ ServerHandles
    \/ RequestAnswered

UserActions ==
    \/ StartSession
    \/ EmitPlay
    \/ EmitPause
    \/ RefreshSession
    \/ EndSession

NextEmitter ==
    \/ UserActions
    \/ Transport
    \/ \E request \in client.requests : RequestFails(request)

SpecEmitter == InitEmitter /\ [][NextEmitter]_vars

(***************************************************************************)
(* C38.  Each event the client emits is stored at most once in its         *)
(* session's event log: a critical event sent immediately is not also sent *)
(* in the next batch, and a failed immediate send adds no further copy.    *)
(***************************************************************************)
\* the copies of the event emitted as eventType at time t that the store holds
StoredCopies(eventType, t) ==
    UNION { { <<sessionId, i>> : i \in
                { j \in 1..Len(sessions[sessionId].events) :
                    LET event == sessions[sessionId].events[j]
                    IN /\ Has(event, "eventType")
                       /\ event.eventType = eventType
                       /\ Has(event.metadata, "timestamp")
                       /\ event.metadata.timestamp = t } } :
            sessionId \in DOMAIN sessions }

EmittedTypes == {"SESSION_START", "SESSION_END", "AUDIO_PLAY", "AUDIO_PAUSE"}

C38_StoredAtMostOnce ==
    \A eventType \in EmittedTypes : \A t \in 0..MaxEmitterClock :
        Cardinality(StoredCopies(eventType, t)) <= 1

\* the same while no request has failed: the events that travel in batches only
C38_BatchOnlyStoredOnce ==
    \A eventType \in EmittedTypes \ {"SESSION_START", "SESSION_END", "AUDIO_PAUSE"} :
        \A t \in 0..MaxEmitterClock :
            Cardinality(StoredCopies(eventType, t)) <= 1

(***************************************************************************)
(* The emitter in front of an available backend: no request fails, and     *)
(* the batch timer, the network and the server keep taking their steps.    *)
(***************************************************************************)
NextAvailable == UserActions \/ Transport

\* ServerHandles is enabled exactly when ServerReady holds and it is the one
\* step that ends ServerReady, so its weak fairness is []<>~ServerReady

SpecAvailable ==
    /\ InitEmitter
    /\ [][NextAvailable]_vars
    /\ WF_vars(BatchTimerFires)
    /\ WF_vars(\E request \in client.requests : RequestArrives(request))
    /\ WF_vars(RequestAnswered)
    /\ []<>~ServerReady

\* the events of a request that has not settled
requestEvents(request) ==
    IF request.url = "/api/events/ingest" THEN <<request.event>> ELSE request.body.events

\* the event emitted as eventType at time t waits in the queue or travels in a
\* request
Queued(eventType, t) ==
    \E events \in {client.eventQueue} \cup {requestEvents(r) : r \in client.requests} :
        \E i \in 1..Len(events) :
            events[i].eventType = eventType /\ events[i].metadata.timestamp = t

\* the backend has received it
Sent(eventType, t) == StoredCopies(eventType, t) # {}

\* an event emitted at time t has not reached the backend
Unsent(types, t) == \E eventType \in types : Queued(eventType, t) /\ ~Sent(eventType, t)

(***************************************************************************)
(* C39.  With an available backend every event the client emits is         *)
(* eventually sent to the backend, also when it is emitted after the       *)
(* session was refreshed or ended and when it is a non-critical event that *)
(* travels in batches only.                                                *)
(***************************************************************************)
C39_EventuallySent ==
    \A t \in 0..MaxEmitterClock : Unsent(EmittedTypes, t) ~> ~Unsent(EmittedTypes, t)

\* the critical events, which emit also sends at once
C39_CriticalEventuallySent ==
    \A t \in 0..MaxEmitterClock :
        Unsent({e \in EmittedTypes : isCriticalEvent(e)}, t)
            ~> ~Unsent({e \in EmittedTypes : isCriticalEvent(e)}, t)

\* the events emitted before the session was first ended
C39_SentWhileTimerRuns ==
    \A t \in 0..MaxEmitterClock :
        (Unsent(EmittedTypes, t) /\ client.batchTimer) ~> ~Unsent(EmittedTypes, t)

(***************************************************************************)
(* The loops of one session in both deployments, none of them failing: the *)
(* events carry no playback context, so every stored event has its loop,   *)
(* and every request of a loop is answered.                                *)
(***************************************************************************)
MaxOrderEvents == 2
MaxOrderIds == 4

OrderBodies ==
    { [sessionId |-> "s1", eventType |-> "AUDIO_REPLAY", metadata |-> [replayDuration |-> 10]],
      [sessionId |-> "s1", eventType |-> "AUDIO_PLAY", metadata |-> EmptyMap] }

OrderBatches ==
    { [sessionId |-> "s1",
       events |-> << [eventType |-> "AUDIO_REPLAY", metadata |-> [replayDuration |-> 10]],
                     [eventType |-> "AUDIO_REPLAY", metadata |-> [replayDuration |-> 10]] >>] }

InitOrder ==
    /\ now = 0
    /\ service \in {"server", "event-service"}
    /\ ServerStarted
    /\ EngineIdle
    /\ DataServiceIdle
    /\ ClientClosed

OrderOpen == LoopStored("s1") < MaxOrderEvents /\ nextId <= MaxOrderIds

OrderFresh == LoopStored("s1") = 0 /\ nextId <= MaxOrderIds

NextOrder ==
    \/ \E body \in OrderBodies : OrderOpen /\ Ingest(body)
    \/ \E body \in OrderBatches : OrderFresh /\ IngestBatch(body)
    \/ \E body \in OrderBodies : OrderOpen /\ SvcIngest(body)
    \/ \E body \in OrderBatches : OrderFresh /\ SvcBatch(body)
    \/ \E f \in calls : SvcWindow(f)
    \/ \E f \in calls : SvcAnalyze(f)
    \/ \E f \in calls : SvcCognitive(f)
    \/ \E f \in calls : SvcDecide(f)
    \/ \E f \in calls : SvcPersist(f)

SpecOrder == InitOrder /\ [][NextOrder]_vars

\* the store of the deployment followed
OrderStore == IF service = "server" THEN sessions ELSE table

\* the last entry of sessionId's cognitive-state log is what the engine infers
\* from the window that ends with the session's latest event
InferredFromLatest(sessionId) ==
    LET states == CognitiveStatesOf(OrderStore, sessionId)
        current == states[Len(states)]
        window == getRecentEvents(OrderStore, sessionId, EVENT_WINDOW, now)
    IN current = inferCognitiveState([events |-> window], sessionId, current.timestamp)

(***************************************************************************)
(* C40.  Once every loop execution triggered for a session has finished    *)
(* without failure, the session's current cognitive state, the last entry  *)
(* of its cognitive-state log, was inferred from a window that contains    *)
(* the most recently ingested event of that session; a loop started for an *)
(* older event never overwrites the result of a loop started for a newer.  *)
(***************************************************************************)
C40_LatestWindow ==
    \A sessionId \in DOMAIN OrderStore :
        (calls = {} /\ CognitiveStatesOf(OrderStore, sessionId) # <<>>) =>
            InferredFromLatest(sessionId)

\* the write of a loop's state while the loop of a newer event has written its
\* own and is still in flight
C40_OlderNeverOverwrites ==
    [][\A f \in calls :
          SvcCognitive(f) =>
              ~\E g \in calls : /\ g.event.sessionId = f.event.sessionId
                                /\ g.event.eventId > f.event.eventId
                                /\ g.pc \in {"decide", "persist"}]_vars

\* the in-process server, whose loop runs to its end inside the request
C40_InProcess == service = "server" => C40_LatestWindow

====
